---- MODULE Spec2Model ----
(***************************************************************************)
(* AAU Helpdesk Chatbot: the /chat request handler (app/main.py), the      *)
(* dialogue merge of AAUNLPEngine.process_query and the rule-based         *)
(* ParameterExtractor (app/nlp_engine.py).                                 *)
(*                                                                         *)
(* Python strings are TLA+ strings; TLC evaluates Len, SubSeq and \o on    *)
(* them, so the recognizers below scan characters as the regular           *)
(* expressions of the source do.  Confidences are percentages (0.8 = 80).  *)
(***************************************************************************)
EXTENDS Integers, Sequences, FiniteSets, TLC

(***************************************************************************)
(* Characters and Python str primitives                                    *)
(***************************************************************************)
DigitChars == {"0", "1", "2", "3", "4", "5", "6", "7", "8", "9"}

LowerAlphabet == "abcdefghijklmnopqrstuvwxyz"

UpperAlphabet == "ABCDEFGHIJKLMNOPQRSTUVWXYZ"

LowerChars == {SubSeq(LowerAlphabet, i, i) : i \in 1..Len(LowerAlphabet)}

UpperChars == {SubSeq(UpperAlphabet, i, i) : i \in 1..Len(UpperAlphabet)}

LetterChars == LowerChars \cup UpperChars

\* \w of the re module on ASCII text
WordChars == LetterChars \cup DigitChars \cup {"_"}

\* \s of the re module (the messages of the model hold blanks and tabs)
SpaceChars == {" ", "\t"}

\* s[i-1] of Python, "" outside the string
Ch(s, i) == IF i >= 1 /\ i <= Len(s) THEN SubSeq(s, i, i) ELSE ""

\* s[i-1:] of Python
From(s, i) == SubSeq(s, i, Len(s))

\* s.startswith(lit, i-1)
MatchLit(s, i, lit) == i + Len(lit) - 1 <= Len(s) /\ SubSeq(s, i, i + Len(lit) - 1) = lit

\* lit in s
Contains(s, lit) == \E i \in 1..(Len(s) + 1) : MatchLit(s, i, lit)

\* \b between s[i-2] and s[i-1] (position i is the index of the next character)
AtBoundary(s, i) == (Ch(s, i - 1) \in WordChars) # (Ch(s, i) \in WordChars)

\* the index after the longest run of characters of class cls starting at i
RECURSIVE RunEnd(_, _, _)
RunEnd(s, i, cls) == IF Ch(s, i) \in cls THEN RunEnd(s, i + 1, cls) ELSE i

LowerChar(c) ==
    IF c \in UpperChars
    THEN LET k == CHOOSE j \in 1..Len(UpperAlphabet) : SubSeq(UpperAlphabet, j, j) = c
         IN SubSeq(LowerAlphabet, k, k)
    ELSE c

\* str.lower
RECURSIVE Lower(_)
Lower(s) == IF s = "" THEN "" ELSE LowerChar(Ch(s, 1)) \o Lower(From(s, 2))

\* str.strip
RECURSIVE LStrip(_)
LStrip(s) == IF Ch(s, 1) \in SpaceChars THEN LStrip(From(s, 2)) ELSE s

RECURSIVE RStrip(_)
RStrip(s) == IF Ch(s, Len(s)) \in SpaceChars THEN RStrip(SubSeq(s, 1, Len(s) - 1)) ELSE s

Strip(s) == RStrip(LStrip(s))

\* re.sub(r'\s+', ' ', s)
RECURSIVE CollapseSpaces(_)
CollapseSpaces(s) ==
    IF s = "" THEN ""
    ELSE IF Ch(s, 1) \in SpaceChars
         THEN " " \o CollapseSpaces(From(s, RunEnd(s, 1, SpaceChars)))
         ELSE Ch(s, 1) \o CollapseSpaces(From(s, 2))

\* str.split(): the whitespace-separated words
RECURSIVE Split(_)
Split(s) ==
    LET t == LStrip(s)
        e == CHOOSE j \in 1..(Len(t) + 1) :
                 /\ Ch(t, j) \in SpaceChars \cup {""}
                 /\ \A k \in 1..(j - 1) : Ch(t, k) \notin SpaceChars
    IN IF t = "" THEN <<>> ELSE <<SubSeq(t, 1, e - 1)>> \o Split(From(t, e))

\* int(s) for a string of digits
DigitVal(c) == CHOOSE d \in 0..9 : SubSeq("0123456789", d + 1, d + 1) = c

RECURSIVE StrToInt(_)
StrToInt(s) ==
    IF s = "" THEN 0
    ELSE 10 * StrToInt(SubSeq(s, 1, Len(s) - 1)) + DigitVal(Ch(s, Len(s)))

\* str(n) for n >= 0
RECURSIVE IntToStr(_)
IntToStr(n) ==
    IF n < 10 THEN SubSeq("0123456789", n + 1, n + 1)
    ELSE IntToStr(n \div 10) \o SubSeq("0123456789", (n % 10) + 1, (n % 10) + 1)

Range(f) == {f[i] : i \in DOMAIN f}

(***************************************************************************)
(* The regular expressions of the source.  A pattern is a sequence of      *)
(* elements; Ends gives, for one element at one position, the positions    *)
(* where it can end, in the order the backtracking matcher of re tries     *)
(* them (alternatives left to right, greedy repetitions longest first).    *)
(***************************************************************************)
B == [k |-> "b"]

Alt(alts) == [k |-> "alt", alts |-> alts]

Opt(alts) == [k |-> "opt", alts |-> alts]

\* cls{lo,} greedy
Run(cls, lo) == [k |-> "run", cls |-> cls, lo |-> lo]

\* cls{n}
Rep(cls, n) == [k |-> "rep", cls |-> cls, n |-> n]

\* (?:,\d{3})*
Thousands == [k |-> "thousands"]

\* (?:\.\d{2})?
Cents == [k |-> "cents"]

\* (?:st|nd|rd|th)?
OrdinalSuffix == Opt(<<"st", "nd", "rd", "th">>)

RECURSIVE Descending(_, _)
Descending(hi, lo) == IF hi < lo THEN <<>> ELSE <<hi>> \o Descending(hi - 1, lo)

RECURSIVE AltEnds(_, _, _, _)
AltEnds(s, i, alts, j) ==
    IF j > Len(alts) THEN <<>>
    ELSE (IF MatchLit(s, i, alts[j]) THEN <<i + Len(alts[j])>> ELSE <<>>)
         \o AltEnds(s, i, alts, j + 1)

IsThousandsGroup(s, i) ==
    /\ Ch(s, i) = ","
    /\ \A d \in 1..3 : Ch(s, i + d) \in DigitChars

RECURSIVE ThousandsEnd(_, _)
ThousandsEnd(s, i) == IF IsThousandsGroup(s, i) THEN ThousandsEnd(s, i + 4) ELSE i

RECURSIVE ThousandsEnds(_, _)
ThousandsEnds(e, i) == IF e < i THEN <<>> ELSE <<e>> \o ThousandsEnds(e - 4, i)

\* (?:p1|p2|...) with each alternative a pattern of its own
AnyOf(pats) == [k |-> "any", pats |-> pats]

RECURSIVE Ends(_, _, _)

\* every position where elements k.. of pat can end from i, in the order the
\* matcher reaches them
RECURSIVE AllEnds(_, _, _, _)

RECURSIVE AllEndsVia(_, _, _, _, _)
AllEndsVia(s, cands, pat, k, j) ==
    IF j > Len(cands) THEN <<>>
    ELSE AllEnds(s, cands[j], pat, k + 1) \o AllEndsVia(s, cands, pat, k, j + 1)

AllEnds(s, i, pat, k) ==
    IF k > Len(pat) THEN <<i>> ELSE AllEndsVia(s, Ends(s, i, pat[k]), pat, k, 1)

RECURSIVE AnyEnds(_, _, _, _)
AnyEnds(s, i, pats, j) ==
    IF j > Len(pats) THEN <<>>
    ELSE AllEnds(s, i, pats[j], 1) \o AnyEnds(s, i, pats, j + 1)

Ends(s, i, el) ==
    CASE el.k = "b" -> IF AtBoundary(s, i) THEN <<i>> ELSE <<>>
      [] el.k = "alt" -> AltEnds(s, i, el.alts, 1)
      [] el.k = "opt" -> AltEnds(s, i, el.alts, 1) \o <<i>>
      [] el.k = "run" -> Descending(RunEnd(s, i, el.cls), i + el.lo)
      [] el.k = "rep" -> IF \A d \in 0..(el.n - 1) : Ch(s, i + d) \in el.cls
                         THEN <<i + el.n>> ELSE <<>>
      [] el.k = "thousands" -> ThousandsEnds(ThousandsEnd(s, i), i)
      [] el.k = "cents" -> (IF Ch(s, i) = "." /\ Ch(s, i + 1) \in DigitChars
                               /\ Ch(s, i + 2) \in DigitChars
                            THEN <<i + 3>> ELSE <<>>) \o <<i>>
      [] el.k = "any" -> AnyEnds(s, i, el.pats, 1)

\* The first match of elements k.. of pat at position i, as the positions
\* <<i, end of element k, ..., end of the last element>>; <<>> if none.
RECURSIVE MatchFrom(_, _, _, _)

\* the first candidate end of element k, from the j-th on, that lets the rest match
RECURSIVE MatchVia(_, _, _, _, _)
MatchVia(s, cands, pat, k, j) ==
    IF j > Len(cands) THEN <<>>
    ELSE LET r == MatchFrom(s, cands[j], pat, k + 1)
         IN IF r # <<>> THEN r ELSE MatchVia(s, cands, pat, k, j + 1)

MatchFrom(s, i, pat, k) ==
    IF k > Len(pat) THEN <<i>>
    ELSE LET r == MatchVia(s, Ends(s, i, pat[k]), pat, k, 1)
         IN IF r # <<>> THEN <<i>> \o r ELSE <<>>

\* re.finditer: the matches of pat in s from position i on, left to right,
\* without overlap
RECURSIVE FindAll(_, _, _)
FindAll(s, pat, i) ==
    IF i > Len(s) THEN <<>>
    ELSE LET r == MatchFrom(s, i, pat, 1)
         IN IF r = <<>> THEN FindAll(s, pat, i + 1)
            ELSE <<r>> \o FindAll(s, pat, IF r[Len(r)] > i THEN r[Len(r)] ELSE i + 1)

\* re.search: the first match, <<>> if none
RECURSIVE Search(_, _, _)
Search(s, pat, i) ==
    IF i > Len(s) THEN <<>>
    ELSE LET r == MatchFrom(s, i, pat, 1)
         IN IF r = <<>> THEN Search(s, pat, i + 1) ELSE r

\* the text matched by elements a..b of a match m
Group(s, m, a, b) == SubSeq(s, m[a], m[b + 1] - 1)

\* [Group(a..b) for each match]
Groups(s, pat, a, b) ==
    LET ms == FindAll(s, pat, 1) IN [j \in 1..Len(ms) |-> Group(s, ms[j], a, b)]

(***************************************************************************)
(* Text normalisation                                                      *)
(***************************************************************************)
\* re.sub(r'\b' + abbr + r'\b', full, s, flags=re.IGNORECASE), scanning from i
RECURSIVE SubWord(_, _, _, _)
SubWord(s, abbr, full, i) ==
    IF i > Len(s) THEN ""
    ELSE IF /\ AtBoundary(s, i)
            /\ MatchLit(Lower(s), i, abbr)
            /\ AtBoundary(s, i + Len(abbr))
         THEN full \o SubWord(s, abbr, full, i + Len(abbr))
         ELSE Ch(s, i) \o SubWord(s, abbr, full, i + 1)

\* abbreviations whose expansion holds the abbreviation again
abbreviationsRepeating ==
    << <<"aau", "aau campus">>, <<"cs", "cs department">> >>

\* the abbreviations of _preprocess_text, in the order of the dict
abbreviations ==
    << <<"aau", "addis ababa university">>, <<"cs", "computer science">>,
       <<"eng", "engineering">>, <<"med", "medicine">>, <<"biz", "business">>,
       <<"econ", "economics">> >>

RECURSIVE ExpandFrom(_, _)
ExpandFrom(s, j) ==
    IF j > Len(abbreviations) THEN s
    ELSE ExpandFrom(SubWord(s, abbreviations[j][1], abbreviations[j][2], 1), j + 1)

\* AAUNLPEngine._preprocess_text
PreprocessText(text) == ExpandFrom(CollapseSpaces(Strip(text)), 1)

\* the characters clean_text keeps: [\w\s\-.,!?]
KeptChars == WordChars \cup SpaceChars \cup {"-", ".", ",", "!", "?"}

RECURSIVE KeepOnly(_, _)
KeepOnly(s, cls) ==
    IF s = "" THEN ""
    ELSE (IF Ch(s, 1) \in cls THEN Ch(s, 1) ELSE "") \o KeepOnly(From(s, 2), cls)

\* TextProcessor.clean_text
CleanText(text) ==
    IF text = "" THEN "" ELSE KeepOnly(CollapseSpaces(Strip(text)), KeptChars)

\* len(text.split())
WordCount(text) == Len(Split(text))

(***************************************************************************)
(* ParameterExtractor: the patterns of __init__                            *)
(***************************************************************************)
Keyword(alts) == <<B, Alt(alts), B>>

department_patterns ==
    << Keyword(<<"computer science", "cs", "engineering", "medicine", "law",
                 "business", "economics", "psychology", "biology", "chemistry",
                 "physics", "mathematics", "english", "amharic">>),
       Keyword(<<"veterinary medicine", "pharmacy", "architecture",
                 "information science", "software engineering">>),
       Keyword(<<"social sciences", "education", "journalism", "music", "art",
                 "theatre">>),
       <<B, Alt(<<"school of", "faculty of", "department of", "college of">>),
         Run(SpaceChars, 1), Run(LetterChars \cup SpaceChars, 1)>> >>

document_patterns ==
    << Keyword(<<"transcript", "certificate", "diploma", "degree", "grade report",
                 "academic record", "student id", "recommendation letter">>),
       Keyword(<<"enrollment verification", "graduation certificate",
                 "academic standing certificate">>) >>

semester_patterns ==
    << <<B, Alt(<<"semester", "sem">>), Run(SpaceChars, 0), Run(DigitChars, 1)>>,
       <<B, Alt(<<"first", "second", "third", "1st", "2nd", "3rd">>),
         Run(SpaceChars, 1), Alt(<<"semester", "sem">>)>>,
       <<B, Alt(<<"fall", "spring", "summer", "kiremt">>),
         Run(SpaceChars, 1), Alt(<<"semester", "term">>)>> >>

year_patterns ==
    << <<B, Alt(<<"20">>), Rep(DigitChars, 2), B>>,
       <<B, Alt(<<"year", "yr">>), Run(SpaceChars, 0), Run(DigitChars, 1)>>,
       <<B, Rep(DigitChars, 4), Run(SpaceChars, 0), Alt(<<"academic year", "ay">>)>> >>

fee_patterns ==
    << <<B, Run(DigitChars, 1), Thousands, Cents, Run(SpaceChars, 0),
         Opt(<<"birr", "etb", "usd", "$">>), B>>,
       <<B, Alt(<<"undergraduate", "graduate", "masters", "phd", "international",
                  "foreign">>), Run(SpaceChars, 1), Alt(<<"fee">>), B>> >>

student_type_patterns ==
    << <<B, Alt(<<"international", "foreign">>), Run(SpaceChars, 1),
         Alt(<<"student", "students">>), B>>,
       Keyword(<<"refugee", "refugees">>),
       <<B, AnyOf(<< <<Alt(<<"igad">>)>>,
                    <<Alt(<<"east">>), Run(SpaceChars, 1), Alt(<<"african">>)>> >>),
         Run(SpaceChars, 1),
         Alt(<<"student", "students", "country", "countries">>), B>> >>

campus_patterns ==
    << Keyword(<<"sidist kilo", "main campus", "sefere selam", "science campus",
                 "4 kilo", "bishoftu">>),
       Keyword(<<"6 kilo", "main", "medical campus">>) >>

\* student_id_pattern of the transcript_request branch
student_id_pattern ==
    <<B, AnyOf(<< <<Alt(<<"student">>), Run(SpaceChars, 0), Alt(<<"id">>)>>,
                 <<Alt(<<"id">>), Run(SpaceChars, 0), Alt(<<"number">>)>>,
                 <<Alt(<<"student">>), Run(SpaceChars, 0), Alt(<<"number">>)>> >>),
      Run(SpaceChars \cup {":"}, 0),
      Run(LetterChars \cup DigitChars \cup {"/", "-"}, 1), B>>

(***************************************************************************)
(* Python lists, sets and dicts                                            *)
(***************************************************************************)
RECURSIVE Dedup(_)
Dedup(xs) ==
    IF xs = <<>> THEN <<>>
    ELSE LET front == Dedup(SubSeq(xs, 1, Len(xs) - 1))
             x == xs[Len(xs)]
         IN IF x \in Range(front) THEN front ELSE Append(front, x)

Reverse(xs) == [j \in 1..Len(xs) |-> xs[Len(xs) + 1 - j]]

\* list(set(xs)): the order of a set of strings depends on the string hash
\* seed of the process; seed 0 and seed 1 give the two orders of a pair
ListOfSet(xs, seed) == IF seed = 0 THEN Dedup(xs) ELSE Reverse(Dedup(xs))

\* {}
EmptyDict == [k \in {} |-> <<>>]

\* d with d[key] = value
Put(d, key, value) == (key :> value) @@ d

\* d if xs is empty, else d with d[key] = xs   (if xs: d[key] = xs)
PutIf(d, key, xs) == IF xs = <<>> THEN d ELSE Put(d, key, xs)

\* a.update(b) on a copy of a
Update(a, b) == b @@ a

\* d.get(key), with "no value" (None, a missing key) read as default
Get(d, key, default) == IF key \in DOMAIN d THEN d[key] ELSE default

\* the truth value of d.get(key) for a list or dict value
Truthy(d, key) == key \in DOMAIN d /\ d[key] # <<>>

(***************************************************************************)
(* ParameterExtractor: the recognizers for a bare answer.  They return a   *)
(* string or None; None is the empty string here (both are falsy where     *)
(* extract_parameters tests the result, and no recognizer returns "").     *)
(***************************************************************************)
None == ""

\* dict.get(text) on a dict given as a sequence of <<key, value>> pairs
RECURSIVE Lookup(_, _, _)
Lookup(pairs, text, j) ==
    IF j > Len(pairs) THEN None
    ELSE IF pairs[j][1] = text THEN pairs[j][2] ELSE Lookup(pairs, text, j + 1)

\* for key, value in pairs: if key in text: return value
RECURSIVE FirstContained(_, _, _)
FirstContained(pairs, text, j) ==
    IF j > Len(pairs) THEN None
    ELSE IF Contains(text, pairs[j][1]) THEN pairs[j][2]
         ELSE FirstContained(pairs, text, j + 1)

dept_mappings ==
    << <<"cs", "computer science">>, <<"cse", "computer science">>,
       <<"computer science", "computer science">>, <<"comp sci", "computer science">>,
       <<"software engineering", "software engineering">>,
       <<"information science", "information science">>,
       <<"engineering", "engineering">>, <<"eng", "engineering">>,
       <<"medicine", "medicine">>, <<"med", "medicine">>,
       <<"veterinary medicine", "veterinary medicine">>,
       <<"vet med", "veterinary medicine">>, <<"pharmacy", "pharmacy">>,
       <<"architecture", "architecture">>, <<"law", "law">>,
       <<"business", "business">>, <<"biz", "business">>,
       <<"economics", "economics">>, <<"econ", "economics">>,
       <<"psychology", "psychology">>, <<"psych", "psychology">>,
       <<"biology", "biology">>, <<"bio", "biology">>,
       <<"chemistry", "chemistry">>, <<"chem", "chemistry">>,
       <<"physics", "physics">>, <<"mathematics", "mathematics">>,
       <<"math", "mathematics">>, <<"english", "english">>,
       <<"amharic", "amharic">>, <<"social sciences", "social sciences">>,
       <<"education", "education">>, <<"journalism", "journalism">>,
       <<"music", "music">>, <<"art", "art">>, <<"theatre", "theatre">> >>

\* ParameterExtractor._normalize_department_answer
NormalizeDepartmentAnswer(text) == Lookup(dept_mappings, Strip(text), 1)

semester_mappings ==
    << <<"first", "first">>, <<"1st", "first">>, <<"1", "first">>,
       <<"second", "second">>, <<"2nd", "second">>, <<"2", "second">>,
       <<"third", "third">>, <<"3rd", "third">>, <<"3", "third">>,
       <<"fall", "fall">>, <<"spring", "spring">>, <<"summer", "summer">> >>

ordinal_semester_pattern ==
    <<B, Alt(<<"1st", "2nd", "3rd", "first", "second", "third">>),
      Run(SpaceChars, 0), Alt(<<"semester">>), B>>

\* ParameterExtractor._extract_semester_from_answer (text is lower case)
ExtractSemesterFromAnswer(text0) ==
    LET text == Strip(text0)
        m == Search(text, ordinal_semester_pattern, 1)
        ordinal == Group(text, m, 2, 2)
    IN IF m # <<>>
       THEN (IF ordinal \in {"1st", "first"} THEN "first"
             ELSE IF ordinal \in {"2nd", "second"} THEN "second"
             ELSE "third")
       ELSE IF Lookup(semester_mappings, text, 1) # None
            THEN Lookup(semester_mappings, text, 1)
            ELSE FirstContained(semester_mappings, text, 1)

\* current_year of _extract_year_from_answer
current_year == 2024

\* the first and last year the bare-number rule of _extract_year_from_answer takes
answer_year_min == 2020

answer_year_max == 2030

ordinal_year_pattern ==
    <<B, Run(DigitChars, 1), OrdinalSuffix, Run(SpaceChars, 0), Alt(<<"year">>), B>>

four_digit_pattern == <<B, Rep(DigitChars, 4), B>>

\* ParameterExtractor._extract_year_from_answer; the second search is
\* case-insensitive, which on these patterns is a search in the lowered text
ExtractYearFromAnswer(text) ==
    LET m1 == Search(text, year_patterns[1], 1)
        low == Lower(text)
        m2 == Search(low, ordinal_year_pattern, 1)
        m3 == Search(text, four_digit_pattern, 1)
        year == StrToInt(Group(text, m3, 2, 2))
    IN IF m1 # <<>> THEN Group(text, m1, 2, 3)
       ELSE IF m2 # <<>>
            THEN IntToStr(current_year - 4 + StrToInt(Group(low, m2, 2, 2)))
       ELSE IF m3 # <<>> /\ answer_year_min <= year /\ year <= answer_year_max
            THEN IntToStr(year)
       ELSE None

doc_mappings ==
    << <<"transcript", "transcript">>, <<"certificate", "certificate">>,
       <<"diploma", "diploma">>, <<"degree", "degree certificate">>,
       <<"grade report", "grade report">>, <<"grades", "grade report">> >>

\* ParameterExtractor._extract_document_from_answer
ExtractDocumentFromAnswer(text) == Lookup(doc_mappings, Strip(text), 1)

amount_pattern == <<B, Run(DigitChars, 1), Thousands, Cents, B>>

\* ParameterExtractor._extract_amount_from_answer
ExtractAmountFromAnswer(text) ==
    LET m == Search(text, amount_pattern, 1)
    IN IF m # <<>> THEN Group(text, m, 2, 4) ELSE None

(***************************************************************************)
(* ParameterExtractor.extract_parameters                                   *)
(***************************************************************************)
\* the result of extract_entities when spaCy is not loaded or finds nothing
NoEntities == [PERSON |-> <<>>, DATE |-> <<>>, MONEY |-> <<>>]

RECURSIVE Concat(_)
Concat(seqs) == IF seqs = <<>> THEN <<>> ELSE Head(seqs) \o Concat(Tail(seqs))

\* re.findall of a one-group pattern: the group texts
Strings(t, pat) == Groups(t, pat, 2, 2)

\* the departments list of the regular sweep
Departments(t) ==
    LET p == department_patterns
        named == FindAll(t, p[4], 1)
    IN Strings(t, p[1]) \o Strings(t, p[2]) \o Strings(t, p[3])
       \o [j \in 1..Len(named) |-> Strip(Group(t, named[j], 4, 4))]

Documents(t) == Strings(t, document_patterns[1]) \o Strings(t, document_patterns[2])

\* ' '.join(match) of a two-group match
JoinedPairs(t, pat) ==
    LET ms == FindAll(t, pat, 1)
    IN [j \in 1..Len(ms) |-> Group(t, ms[j], 2, 2) \o " " \o Group(t, ms[j], 4, 4)]

Semesters(t) ==
    Concat([j \in 1..Len(semester_patterns) |-> JoinedPairs(t, semester_patterns[j])])

\* match[1] if match[1] else match[0]: the second group is never empty
Years(t) ==
    Groups(t, year_patterns[1], 2, 3) \o Groups(t, year_patterns[2], 4, 4)
    \o Groups(t, year_patterns[3], 4, 4)

Fees(t) == Groups(t, fee_patterns[1], 2, 4) \o Strings(t, fee_patterns[2])

Campuses(t) == Strings(t, campus_patterns[1]) \o Strings(t, campus_patterns[2])

StudentTypes(t) ==
    Concat([j \in 1..Len(student_type_patterns) |-> Strings(t, student_type_patterns[j])])

\* lines 365-447: the rule sweep over every slot type of the lowered text t
RuleSweep(t, seed) ==
    LET d1 == PutIf(EmptyDict, "department", ListOfSet(Departments(t), seed))
        d2 == PutIf(d1, "document_type", ListOfSet(Documents(t), seed))
        d3 == PutIf(d2, "semester", ListOfSet(Semesters(t), seed))
        d4 == PutIf(d3, "year", ListOfSet(Years(t), seed))
        d5 == PutIf(d4, "fee_amount", ListOfSet(Fees(t), seed))
        d6 == PutIf(d5, "campus", ListOfSet(Campuses(t), seed))
    IN PutIf(d6, "student_type", ListOfSet(StudentTypes(t), seed))

\* the hash orders of the model
HashSeeds == {0, 1}

\* What the recognizers of extract_parameters and process_query compute from
\* a text alone, each by the expression of the source line it stands for.
TextFacts(text) ==
    LET t == Lower(text)
    IN [words |-> WordCount(text),
        semester |-> ExtractSemesterFromAnswer(t),
        year |-> ExtractYearFromAnswer(text),
        department |-> NormalizeDepartmentAnswer(t),
        document_type |-> ExtractDocumentFromAnswer(t),
        fee_amount |-> ExtractAmountFromAnswer(text),
        sweep |-> [seed \in HashSeeds |-> RuleSweep(t, seed)],
        fee_matches |-> Groups(t, fee_patterns[1], 2, 4),
        id_matches |-> Groups(t, student_id_pattern, 4, 4),
        numbers |-> Groups(text, four_digit_pattern, 2, 2)]

\* memo.text[t] = TextFacts(t) and memo.raw[m] = RawFacts(m) for the texts of
\* the model: the recognizers are functions of the text, so each is computed
\* once, when the process starts, and read from here afterwards.
VARIABLE memo

Facts(text) == memo.text[text]

\* extract_entities: spaCy is an optional statistical collaborator; when it is
\* not loaded, or finds nothing, every list is empty, and when it is loaded it
\* may tag a four-digit number of the text as a DATE
EntityChoices(text) ==
    {NoEntities} \cup {[NoEntities EXCEPT !.DATE = <<n>>] : n \in Range(Facts(text).numbers)}

\* lines 365-456: the rule sweep, then the named entities
RegularSweep(text, seed, ents) ==
    LET d8 == PutIf(Facts(text).sweep[seed], "person", ents.PERSON)
        d9 == PutIf(d8, "date", ents.DATE)
    IN PutIf(d9, "amount", ents.MONEY)

\* IntentSpecific with the fee branch also storing the currency words of the
\* matches under a slot of its own
IntentSpecificWithCurrency(text, intent) ==
    IF intent = "fee_payment"
    THEN PutIf(PutIf(EmptyDict, "fee_amount", Facts(text).fee_matches),
               "currency", Facts(text).fee_matches)
    ELSE IF intent = "transcript_request"
    THEN PutIf(EmptyDict, "student_id", Facts(text).id_matches)
    ELSE EmptyDict

\* lines 458-471: the intent-specific extraction
IntentSpecific(text, intent) ==
    IF intent = "fee_payment"
    THEN PutIf(EmptyDict, "fee_amount", Facts(text).fee_matches)
    ELSE IF intent = "transcript_request"
    THEN PutIf(EmptyDict, "student_id", Facts(text).id_matches)
    ELSE EmptyDict

\* the context is None or a dict; NoContext is None
NoContext == [is_none |-> TRUE]

\* the truth value of a context: neither None nor {}
ContextGiven(context) == context # NoContext /\ DOMAIN context # {}

\* the slots a bare answer can fill, in the order lines 334-356 try them
answer_slots == <<"semester", "year", "department", "document_type", "fee_amount">>

\* ContextAware without the "in missing_params" tests: every recognised value is kept
ContextAwareUnfiltered(text, missing_params) ==
    LET found == {slot \in Range(answer_slots) : Facts(text)[slot] # None}
    IN [slot \in found |-> <<Facts(text)[slot]>>]

\* lines 326-356: the recognizers for a bare answer, each kept only when it
\* found a value and its slot is in the missing list
ContextAware(text, missing_params) ==
    LET found == {slot \in Range(answer_slots) :
                     Facts(text)[slot] # None /\ slot \in Range(missing_params)}
    IN [slot \in found |-> <<Facts(text)[slot]>>]

\* lines 358-363: the early return when as many slots were extracted as were missing
ReturnsEarly(extracted_params, missing_params) ==
    /\ DOMAIN extracted_params # {}
    /\ Cardinality(DOMAIN extracted_params) >= Len(missing_params)

\* ParameterExtractor.extract_parameters(text, intent, context); seed is the
\* hash order of the process and ents what extract_entities returns for text
ExtractParameters(text, intent, context, seed, ents) ==
    LET aware == ContextGiven(context) /\ Truthy(context, "missing_parameters")
        extracted == IF aware THEN ContextAware(text, context.missing_parameters)
                     ELSE EmptyDict
    IN IF aware /\ ReturnsEarly(extracted, context.missing_parameters)
       THEN extracted
       ELSE Update(Update(extracted, RegularSweep(text, seed, ents)),
                   IntentSpecific(text, intent))

(***************************************************************************)
(* AAUNLPEngine                                                            *)
(***************************************************************************)
\* the required-slot table of _get_required_parameters
required_params ==
    [admission_inquiry |-> <<"department">>,
     registration_help |-> <<"semester", "year">>,
     fee_payment |-> <<"fee_amount">>,
     transcript_request |-> <<"document_type">>,
     grade_inquiry |-> <<"semester", "year">>,
     course_information |-> <<"department">>,
     schedule_inquiry |-> <<"semester", "year">>,
     document_request |-> <<"document_type">>,
     general_info |-> <<>>,
     technical_support |-> <<>>,
     undergraduate_admission |-> <<"department">>,
     graduate_admission |-> <<"department">>,
     gat_exam_inquiry |-> <<>>,
     international_admission |-> <<>>,
     undergraduate_fee_inquiry |-> <<"department">>,
     graduate_fee_inquiry |-> <<"department">>,
     international_student_fees |-> <<>>,
     payment_methods_inquiry |-> <<>>,
     course_catalog_inquiry |-> <<"department">>,
     prerequisite_inquiry |-> <<"department">>,
     academic_calendar_inquiry |-> <<"year">>,
     exam_schedule_inquiry |-> <<"semester", "year">>,
     grade_report_request |-> <<>>,
     official_transcript_request |-> <<"document_type">>,
     certificate_request |-> <<"document_type">>,
     student_id_services |-> <<>>,
     library_services_inquiry |-> <<>>,
     accommodation_inquiry |-> <<>>,
     campus_location_inquiry |-> <<>>,
     facility_booking_inquiry |-> <<>>,
     thesis_submission_process |-> <<>>,
     research_opportunity_inquiry |-> <<>>,
     readmission_inquiry |-> <<>>,
     alumni_services_inquiry |-> <<>>,
     hospital_services_inquiry |-> <<>>,
     book_center_inquiry |-> <<>>,
     radio_station_inquiry |-> <<>>,
     museum_services_inquiry |-> <<>>,
     student_portal_inquiry |-> <<>>]

\* AAUNLPEngine._get_required_parameters
GetRequiredParameters(intent) == Get(required_params, intent, <<>>)

\* the word limit of a follow-up answer (line 643)
follow_up_max_words == 5

\* the confidence of a follow-up turn, 0.8 (line 646)
follow_up_confidence == 80

\* the confidence of an untrained classifier, 0.5 (line 224)
untrained_confidence == 50

\* IsFollowUp with the word limit off by one (< instead of <=)
IsFollowUpUnderLimit(cleaned_text, context) ==
    /\ ContextGiven(context)
    /\ Truthy(context, "missing_parameters")
    /\ Facts(cleaned_text).words < follow_up_max_words

\* line 643: the follow-up test on the preprocessed text
IsFollowUp(cleaned_text, context) ==
    /\ ContextGiven(context)
    /\ Truthy(context, "missing_parameters")
    /\ Facts(cleaned_text).words <= follow_up_max_words

\* MergeFollowUp with the update the wrong way round: the prior value wins
MergeFollowUpKeepingOld(context, parameters) ==
    IF Truthy(context, "all_parameters")
    THEN Update(parameters, context.all_parameters)
    ELSE parameters

\* lines 651-655: the merge of the follow-up branch
MergeFollowUp(context, parameters) ==
    IF Truthy(context, "all_parameters")
    THEN Update(context.all_parameters, parameters)
    ELSE parameters

\* the keys of parameters whose value is not empty
Filled(parameters) == {key \in DOMAIN parameters : parameters[key] # <<>>}

\* MergeFresh with the update the wrong way round: the prior value wins
MergeFreshKeepingOld(context, parameters) ==
    IF ContextGiven(context) /\ Truthy(context, "all_parameters")
    THEN Update([key \in Filled(parameters) |-> parameters[key]], context.all_parameters)
    ELSE parameters

\* lines 664-670: the merge of the fresh-query branch
MergeFresh(context, parameters) ==
    IF ContextGiven(context) /\ Truthy(context, "all_parameters")
    THEN Update(context.all_parameters, [key \in Filled(parameters) |-> parameters[key]])
    ELSE parameters

\* MissingParams without the "or not parameters[param]" test: a slot mapped to
\* an empty list counts as resolved
MissingParamsAbsentOnly(intent, parameters) ==
    LET absent(param) == param \notin DOMAIN parameters
    IN SelectSeq(GetRequiredParameters(intent), absent)

\* line 674: the required slots that are absent or empty, in table order
MissingParams(intent, parameters) ==
    LET absent(param) == param \notin DOMAIN parameters \/ parameters[param] = <<>>
    IN SelectSeq(GetRequiredParameters(intent), absent)

\* NeedsClarification in the confidence-gated variant (threshold 0.6)
NeedsClarificationGated(missing_params, confidence) ==
    Len(missing_params) > 0 \/ confidence < 60

\* line 681
NeedsClarification(missing_params, confidence) == Len(missing_params) > 0

\* AAUNLPEngine._preprocess_text, read from memo
Preprocessed(text) == memo.raw[text].processed

\* AAUNLPEngine.process_query; predicted is what intent_classifier.predict
\* returns for the preprocessed text (read only in the fresh-query branch)
ProcessQuery(text, context, predicted, seed, ents) ==
    LET cleaned_text == Preprocessed(text)
        follow == IsFollowUp(cleaned_text, context)
        intent == IF follow THEN Get(context, "last_intent", "general_info")
                  ELSE predicted[1]
        confidence == IF follow THEN follow_up_confidence ELSE predicted[2]
        extracted == ExtractParameters(cleaned_text, intent, context, seed, ents)
        parameters == IF follow THEN MergeFollowUp(context, extracted)
                      ELSE MergeFresh(context, extracted)
        missing_params == MissingParams(intent, parameters)
    IN [intent |-> intent,
        confidence |-> confidence,
        parameters |-> parameters,
        missing_parameters |-> missing_params,
        needs_clarification |-> NeedsClarification(missing_params, confidence),
        processed_text |-> cleaned_text,
        context_used |-> context # NoContext]

(***************************************************************************)
(* app/main.py: the /chat handler and its session store                    *)
(***************************************************************************)
greetings ==
    {"hello", "hi", "hey", "good morning", "good afternoon", "good evening", "greetings"}

goodbyes == {"bye", "goodbye", "see you", "farewell", "take care", "thanks", "thank you"}

\* _is_greeting
IsGreeting(text) == \E g \in greetings : Contains(Lower(text), g)

\* _is_goodbye
IsGoodbye(text) == \E g \in goodbyes : Contains(Lower(text), g)

\* not request.message or not request.message.strip()
IsBlank(message) == message = "" \/ Strip(message) = ""

\* What the handler and process_query compute from a message alone.
RawFacts(message) ==
    [blank |-> IsBlank(message),
     clean |-> CleanText(message),
     greeting |-> IsGreeting(message),
     goodbye |-> IsGoodbye(message),
     processed |-> PreprocessText(message)]

Raw(message) == memo.raw[message]

\* ResponseTemplates.generate_response: which kind of template answers, for
\* which intent, and which missing slots it asks about (the first two that
\* have follow-up questions); the wording is a random choice among texts
follow_up_slots ==
    {"department", "semester", "year", "document_type", "fee_amount", "student_id"}

\* missing_parameters[:2] (line 1218)
max_follow_ups == 2

GenerateResponse(intent, parameters, missing_parameters) ==
    IF missing_parameters # <<>>
    THEN [kind |-> "follow_up", intent |-> intent,
          asks |-> SelectSeq(SubSeq(missing_parameters, 1,
                                    IF Len(missing_parameters) < max_follow_ups
                                    THEN Len(missing_parameters) ELSE max_follow_ups),
                             LAMBDA param : param \in follow_up_slots)]
    ELSE [kind |-> "complete", intent |-> intent, asks |-> <<>>]

(***************************************************************************)
(* ResponseTemplates: the texts.  A template is the sequence of the pieces *)
(* str.format sees in it: literal text (shortened here, "..." marks the    *)
(* cut) and replacement fields "{slot}".  A response is a sequence of      *)
(* pieces too; in a follow-up response the base text and the questions are *)
(* joined by newlines and each question is preceded by a bullet.           *)
(***************************************************************************)
\* a catalog whose two texts for one intent name different fields
templatesUneven ==
    [admission_inquiry |->
        [complete |-> <<<<"**Admission - ", "{department}", "**">>,
                        <<"**Admission ", "{year}", " - ", "{department}", "**">>>>,
         partial |-> <<"Which program?", "Which field?">>]]

\* _initialize_templates
templates ==
    [undergraduate_admission |->
        [complete |-> <<<<"**Undergraduate Admission at AAU - ", "{department}", "** **Requirements:** Ethiopian Secon...Main Campus">>,
                      <<"**AAU Undergraduate Programs - ", "{department}", "** **Admission Standards:** Same qua...istrar for ", "{department}", "-specific requirements.">>>>,
         partial |-> <<"I can help with undergraduate admiss...erested in?",
                      "AAU offers undergraduate programs ac...d of study.">>],
     graduate_admission |->
        [complete |-> <<<<"**Graduate Admission at AAU - ", "{department}", "** **Masters Programs:** Bachelor's...ms Office, ", "{department}">>,
                      <<"**AAU Graduate Studies - ", "{department}", "** **Application Process:** 1. Check...ollege for ", "{department}", " requirements.">>>>,
         partial |-> <<"I can help with graduate admission i...hich field?",
                      "AAU offers various graduate programs...erested in.">>],
     gat_exam_inquiry |->
        [complete |-> <<<<"**GAT (Graduate Aptitude Test) Infor...ting Center">>>>,
         partial |-> <<"I can help with GAT exam information...am details?",
                      "The GAT exam is administered regular...t the test?">>],
     international_admission |->
        [complete |-> <<<<"**International Student Admission at...ents Office">>>>,
         partial |-> <<"I can help with international admiss...l location?",
                      "AAU welcomes international students...ies to you?">>],
     undergraduate_fee_inquiry |->
        [complete |-> <<<<"**AAU Undergraduate Fees (Ethiopian Students) - ", "{department}", "** **Fee Structure by Program Catego...ent methods">>>>,
         partial |-> <<"I can provide undergraduate fee info...king about?",
                      "AAU undergraduate fees vary by progr...nformation.">>],
     graduate_fee_inquiry |->
        [complete |-> <<<<"**AAU Graduate Fees (Ethiopian Students) - ", "{department}", "** **Masters Programs (ETB per ECTS)...recommended">>>>,
         partial |-> <<"I can provide graduate fee informati...department?",
                      "Graduate fees vary by program level...department.">>],
     payment_methods_inquiry |->
        [complete |-> <<<<"**AAU Fee Payment Methods** **Availa...unt details">>>>,
         partial |-> <<"I can help with payment method infor...nt details?",
                      "AAU accepts various payment methods....ing to pay?">>],
     academic_calendar_inquiry |->
        [complete |-> <<<<"**AAU Academic Calendar ", "{year}", "** **Regular Academic Year:** Start:...on with AVP">>>>,
         partial |-> <<"I can provide academic calendar info...ar details?",
                      "The AAU academic calendar includes r...o you need?">>],
     exam_schedule_inquiry |->
        [complete |-> <<<<"**AAU Examination Schedule ", "{semester}", " ", "{year}", "** **Current Exam Information:** Fir...xam details">>>>,
         partial |-> <<"I can help with exam schedule inform...king about?",
                      "AAU exam schedules are posted regula...tion about.">>],
     official_transcript_request |->
        [complete |-> <<<<"**Official Transcript Request at AAU...@aau.edu.et">>>>,
         partial |-> <<"I can help with official transcript...documents?",
                      "Official transcripts are processed b...o you need?">>],
     library_services_inquiry |->
        [complete |-> <<<<"**AAU Library Services** **Main Serv...earch tools">>>>,
         partial |-> <<"I can help with library services inf...resources?",
                      "AAU Libraries offer comprehensive ac...tion about?">>],
     campus_location_inquiry |->
        [complete |-> <<<<"**AAU Campus Locations** **Main Camp...ll campuses">>>>,
         partial |-> <<"I can help with campus location info...ooking for?",
                      "AAU has multiple campuses across Add...ections to.">>],
     accommodation_inquiry |->
        [complete |-> <<<<"**AAU Student Accommodation** **Hous...pplications">>>>,
         partial |-> <<"I can help with accommodation inform...procedures?",
                      "AAU provides various housing and din...o you need?">>],
     research_opportunity_inquiry |->
        [complete |-> <<<<"**Research Opportunities at AAU** **...Office, AAU">>>>,
         partial |-> <<"I can help with research opportunity...ortunities?",
                      "AAU offers various research opportun...interests.">>],
     thesis_submission_process |->
        [complete |-> <<<<"**Thesis/Dissertation Submission at...ive college">>>>,
         partial |-> <<"I can help with thesis submission in...ssertation?",
                      "Thesis submission involves several s...help with?">>],
     hospital_services_inquiry |->
        [complete |-> <<<<"**Tikur Anbessa Specialized Hospital...information">>>>,
         partial |-> <<"I can help with hospital services in...nformation?",
                      "Tikur Anbessa Hospital provides comp...o you need?">>],
     book_center_inquiry |->
        [complete |-> <<<<"**AAU Book Center Services** **About...rce support">>>>,
         partial |-> <<"I can help with Book Center informat...l services?",
                      "The AAU Book Center offers textbooks...o you need?">>],
     admission_inquiry |->
        [complete |-> <<<<"For ", "{department}", " admissions at AAU, here's what you...ements for ", "{department}", ", please visit the admissions office...AU website.">>,
                      <<"Welcome to AAU! For ", "{department}", " admission information: **Steps to A...uired) The ", "{department}", " program has specific prerequisites....quirements.">>>>,
         partial |-> <<"I can help you with admission inform...erested in.",
                      "AAU offers various programs. Which d...o apply to?">>],
     registration_help |->
        [complete |-> <<<<"**AAU Registration for ", "{semester}", " ", "{year}", "** **Registration Steps:** 1. Meet w...assistance">>>>,
         partial |-> <<"I can help with registration! Which...tering for?",
                      "To provide specific registration gui...demic year.">>],
     readmission_inquiry |->
        [complete |-> <<<<"**AAU Readmission Process** **Eligib...department">>>>,
         partial |-> <<"I can help with readmission informat...to return?",
                      "Readmission processes vary by situat...e from AAU?">>],
     fee_payment |->
        [complete |-> <<<<"**AAU Fee Payment Information - ", "{fee_amount}", "** **Payment Methods:** Bank transfe...unt details">>>>,
         partial |-> <<"I can help with fee payment informat...ype of fee?",
                      "To provide specific payment guidance...e category.">>],
     international_student_fees |->
        [complete |-> <<<<"**International Student Fees at AAU*...al students">>>>,
         partial |-> <<"I can help with international studen...l location?",
                      "International fees vary by student c...situation?">>],
     transcript_request |->
        [complete |-> <<<<"**AAU Transcript Request - ", "{document_type}", "** **Required Documents:** Completed...@aau.edu.et">>>>,
         partial |-> <<"I can help with document requests. W...ate, etc.)?",
                      "Which document would you like to request from AAU?">>],
     certificate_request |->
        [complete |-> <<<<"**AAU Certificate Request - ", "{document_type}", "** **Available Certificates:** Degre...Main Campus">>>>,
         partial |-> <<"I can help with certificate requests...o you need?",
                      "AAU issues various certificates. Ple...requesting.">>],
     grade_inquiry |->
        [complete |-> <<<<"**AAU Grade Inquiry - ", "{semester}", " ", "{year}", "** **How to Check Grades:** Student...11-123-4568">>>>,
         partial |-> <<"I can help with grade inquiries. Whi...king about?",
                      "To check your grades, please specify...demic year.">>],
     grade_report_request |->
        [complete |-> <<<<"**AAU Grade Report Request** **Avail.../department">>>>,
         partial |-> <<"I can help with grade report request...o you need?",
                      "Grade reports are available in vario...quirements.">>],
     course_information |->
        [complete |-> <<<<"**AAU Course Information - ", "{department}", "** **Available Resources:** Course c...Contact:** ", "{department}", " department office for specific course information">>>>,
         partial |-> <<"I can provide course information. Wh...erested in?",
                      "Which department's courses would you...know about?">>],
     course_catalog_inquiry |->
        [complete |-> <<<<"**AAU Course Catalog - ", "{department}", "** **Catalog Access:** Online course...information">>>>,
         partial |-> <<"I can help with course catalog infor...erested in?",
                      "Course catalogs are available for al...f interest.">>],
     prerequisite_inquiry |->
        [complete |-> <<<<"**AAU Course Prerequisites - ", "{department}", "** **Prerequisite Types:** Academic...advisor or ", "{department}", " office">>>>,
         partial |-> <<"I can help with prerequisite informa...king about?",
                      "Prerequisites vary by course and pro...erested in.">>],
     schedule_inquiry |->
        [complete |-> <<<<"**AAU Schedule Information - ", "{semester}", " ", "{year}", "** **Where to Find Schedules:** Stud...assistance">>>>,
         partial |-> <<"I can help with schedule information...king about?",
                      "Please specify the semester and acad...le details.">>],
     student_id_services |->
        [complete |-> <<<<"**AAU Student ID Services** **New St...ated issues">>>>,
         partial |-> <<"I can help with student ID services....D services?",
                      "Student ID services include new issu...help with?">>],
     document_request |->
        [complete |-> <<<<"**AAU Document Request - ", "{document_type}", "** **Available Documents:** Official...Main Campus">>>>,
         partial |-> <<"I can help with document requests. W...o you need?",
                      "Which document would you like to request from AAU?">>],
     alumni_services_inquiry |->
        [complete |-> <<<<"**AAU Alumni Services** **Alumni Ben...ions Office">>>>,
         partial |-> <<"I can help with alumni services info...c services?",
                      "AAU offers various alumni services....o you need?">>],
     general_info |->
        [complete |-> <<<<"**Welcome to AAU - Ethiopia's Premie...you today?">>,
                      <<"**AAU Student Services ** **Main Cam...o you need?">>>>,
         partial |-> <<"Hello! I'm here to help with AAU ser...t you with?",
                      "Welcome to AAU Helpdesk! How may I help you today?">>],
     technical_support |->
        [complete |-> <<<<"**AAU Technical Support** **Common T...elp section">>>>,
         partial |-> <<"I can help with technical issues. Wh...periencing?",
                      "What technical issue can I help you with today?">>],
     facility_booking_inquiry |->
        [complete |-> <<<<"**AAU Facility Booking Services** **...ment Office">>>>,
         partial |-> <<"I can help with facility booking. Wh...o you need?",
                      "AAU has various bookable facilities....quirements.">>],
     radio_station_inquiry |->
        [complete |-> <<<<"**AAU Community Radio FM 99.4** **Ab...portunities">>>>,
         partial |-> <<"I can help with AAU Radio informatio...nformation?",
                      "AAU FM 99.4 is the community radio s...ke to know?">>],
     museum_services_inquiry |->
        [complete |-> <<<<"**AAU Museums and Cultural Services*...rrangements">>>>,
         partial |-> <<"I can help with museum and cultural...l programs?",
                      "AAU has several museums and cultural...o you need?">>],
     out_of_domain |->
        [complete |-> <<<<"I'm not sure about that question. Fo...st updates.">>,
                      <<"I don't have information about that...u_official.">>,
                      <<"That's outside my area of expertise....u_official.">>,
                      <<"I'm not able to help with that. For...n Telegram.">>,
                      <<"I don't have information about that....u_official.">>>>,
         partial |-> <<"I'm not sure about that. For AAU inf...n Telegram.",
                      "That's not something I can help with...nformation.">>]]

\* _initialize_follow_ups
follow_up_questions ==
    [department |-> <<"Which department or program are you interested in?",
          "Could you specify the department?",
          "What's your field of study or intended major?">>,
     semester |-> <<"Which semester are you referring to (1st, 2nd, etc.)?",
          "Could you specify the semester?",
          "What semester do you need information about?">>,
     year |-> <<"Which academic year are you asking about?",
          "Could you specify the year?",
          "What year is this for?">>,
     document_type |-> <<"What type of document do you need (transcript,...ate, etc.)?",
          "Which document are you requesting?",
          "Could you specify the document type?">>,
     fee_amount |-> <<"What's the fee amount you need to pay?",
          "Could you specify the amount?",
          "How much do you need to pay?">>,
     student_id |-> <<"Could you provide your student ID number?",
          "What's your student ID?",
          "Please share your student identification number.">>]

\* a join that leaves the comma out
RECURSIVE JoinSpaced(_)
JoinSpaced(value) ==
    IF value = <<>> THEN ""
    ELSE IF Len(value) = 1 THEN value[1]
    ELSE value[1] \o " " \o JoinSpaced(Tail(value))

\* ', '.join(str(v) for v in value), line 1242 (the values are lists of str)
RECURSIVE Join(_)
Join(value) ==
    IF value = <<>> THEN ""
    ELSE IF Len(value) = 1 THEN value[1]
    ELSE value[1] \o ", " \o Join(Tail(value))

\* a format that renders an absent field as the empty string
FormatLenient(template, parameters) ==
    [raised |-> FALSE,
     text |-> [i \in DOMAIN template |->
                  IF SubSeq(template[i], 1, 1) # "{" THEN template[i]
                  ELSE Join(Get(parameters, SubSeq(template[i], 2, Len(template[i]) - 1),
                                <<>>))]]

\* lines 1239-1246: template.format(**formatted_params), which raises KeyError
\* when the template names a field that parameters does not have
Format(template, parameters) ==
    LET IsField(piece) == SubSeq(piece, 1, 1) = "{"
        Name(piece) == SubSeq(piece, 2, Len(piece) - 1)
    IN IF \E i \in DOMAIN template :
              IsField(template[i]) /\ Name(template[i]) \notin DOMAIN parameters
       THEN [raised |-> TRUE]
       ELSE [raised |-> FALSE,
             text |-> [i \in DOMAIN template |->
                          IF IsField(template[i]) THEN Join(parameters[Name(template[i])])
                          ELSE template[i]]]

\* a follow-up response with a question for every missing slot
GenerateFollowUpResponseAskingAll(intent, missing_parameters, pick) ==
    <<"I need a bit more information to help you better.">>
        \o [j \in 1..Len(missing_parameters) |-> missing_parameters[j]]

\* _generate_follow_up_response; pick holds the draws of its random.choice
\* calls, and random.choice(list) is list[draw % len(list)]
GenerateFollowUpResponse(intent, missing_parameters, pick) ==
    LET partial == templates[intent].partial
        base_response == IF intent \in DOMAIN templates
                         THEN partial[(pick[1] % Len(partial)) + 1]
                         ELSE "I need a bit more information to help you better."
        asks == GenerateResponse(intent, EmptyDict, missing_parameters).asks
    IN <<base_response>>
           \o [j \in 1..Len(asks) |->
                  LET questions == follow_up_questions[asks[j]]
                  IN questions[(pick[j + 1] % Len(questions)) + 1]]

\* a complete response that answers an unknown intent from the general_info texts
GenerateCompleteResponseGeneral(intent, parameters, pick) ==
    templates.general_info.complete[1]

\* _generate_complete_response
GenerateCompleteResponse(intent, parameters, pick) ==
    IF intent \notin DOMAIN templates
    THEN <<"I understand your request, but I don't have specific information available right now. Please contact the relevant AAU office for assistance.">>
    ELSE LET complete == templates[intent].complete
             template == complete[(pick[1] % Len(complete)) + 1]
             formatted == Format(template, parameters)
         IN IF formatted.raised THEN template ELSE formatted.text

\* the attributes of a ResponseTemplates object (class body, lines 1186-1249)
response_templates_attributes ==
    {"templates", "follow_up_questions", "clarification_templates",
     "generate_response", "_generate_follow_up_response", "_generate_complete_response"}

\* what a ChatResponse carries (the timestamp and related_news are left out)
ChatResponse(response, intent, confidence, parameters, missing_parameters, needs_clarification) ==
    [response |-> response, intent |-> intent, confidence |-> confidence,
     parameters |-> parameters, missing_parameters |-> missing_parameters,
     needs_clarification |-> needs_clarification]

\* lines 212-222: the except clause.  Its ChatResponse is built from
\* response_templates.get_error_response(); when the object has no such
\* attribute the call raises AttributeError inside the handler, which leaves
\* the handler as an unhandled exception.
ErrorHandler ==
    IF "get_error_response" \in response_templates_attributes
    THEN [kind |-> "response",
          body |-> ChatResponse("error_response", "error", 0, EmptyDict, <<>>, TRUE)]
    ELSE [kind |-> "raised", exception |-> "AttributeError"]

\* a canned answer that leaves the conversation open
CannedReplyClarifying(text) ==
    [kind |-> "response",
     body |-> ChatResponse(text, "general_info", 100, EmptyDict, <<>>, TRUE)]

\* lines 122-142: the canned answer to a greeting or a goodbye
CannedReply(text) ==
    [kind |-> "response",
     body |-> ChatResponse(text, "general_info", 100, EmptyDict, <<>>, FALSE)]

\* request.session_id is None
NoSession == ""

\* a lookup that finds the store as it was before any request wrote
ReadContextStale(store, session_id) == NoContext

\* lines 145-147: the context read for the request
ReadContext(store, session_id) ==
    IF session_id # NoSession /\ session_id \in DOMAIN store
    THEN store[session_id] ELSE NoContext

\* StoredContext with the new entry put in front of the history
StoredContextNewestFirst(store, session_id, context, result, cleaned_message, response_text) ==
    LET merged_parameters ==
            Update(IF ContextGiven(context) /\ "last_parameters" \in DOMAIN context
                   THEN context.last_parameters ELSE EmptyDict,
                   result.parameters)
        history == IF session_id \in DOMAIN store
                   THEN store[session_id].conversation_history ELSE <<>>
    IN [last_intent |-> result.intent,
        last_parameters |-> merged_parameters,
        all_parameters |-> merged_parameters,
        conversation_history |->
            <<[user |-> cleaned_message, bot |-> response_text]>> \o history]

\* StoredContext with the history started afresh at every turn
StoredContextFreshHistory(store, session_id, context, result, cleaned_message, response_text) ==
    LET merged_parameters ==
            Update(IF ContextGiven(context) /\ "last_parameters" \in DOMAIN context
                   THEN context.last_parameters ELSE EmptyDict,
                   result.parameters)
    IN [last_intent |-> result.intent,
        last_parameters |-> merged_parameters,
        all_parameters |-> merged_parameters,
        conversation_history |-> <<[user |-> cleaned_message, bot |-> response_text]>>]

\* lines 171-186: the entry written at the end of the turn
StoredContext(store, session_id, context, result, cleaned_message, response_text) ==
    LET merged_parameters ==
            Update(IF ContextGiven(context) /\ "last_parameters" \in DOMAIN context
                   THEN context.last_parameters ELSE EmptyDict,
                   result.parameters)
        history == IF session_id \in DOMAIN store
                   THEN store[session_id].conversation_history ELSE <<>>
    IN [last_intent |-> result.intent,
        last_parameters |-> merged_parameters,
        all_parameters |-> merged_parameters,
        conversation_history |->
            Append(history, [user |-> cleaned_message, bot |-> response_text])]

(***************************************************************************)
(* The inputs of the model                                                 *)
(***************************************************************************)
\* the session ids of the requests ("" is a request without one)
SessionIds == {"s1"}

\* the messages sent to /chat
Messages ==
    {"", "Hello", "thanks", "law", "cs", "2024", "I want to apply for admission"}

\* the texts passed to process_query by a direct caller
QueryTexts ==
    {"fees @ aau", "cs at aau", "i want law for year 2024",
     "1999", "2050", "2024", "law", "cs", "second semester", "5000 birr", "transcript",
     "pay my fees", "first semester at aau", "I want to apply for admission", "apply for cs now please",
     "register for second semester 2024"}

\* the labels and confidences a trained classifier answers with; the last
\* label is one the required-slot table does not list
PredictLabels == {"admission_inquiry", "fee_payment", "general_info", "campus_tour"}

Confidences == {30, 95}

\* the contexts a direct caller of process_query starts from
InitialContexts ==
    {NoContext,
     EmptyDict,
     [last_intent |-> "registration_help",
      all_parameters |-> ("semester" :> <<"first">>),
      missing_parameters |-> <<"year">>],
     [last_intent |-> "registration_help",
      all_parameters |-> EmptyDict,
      missing_parameters |-> <<"semester", "year">>],
     [last_intent |-> "admission_inquiry",
      all_parameters |-> ("year" :> <<"2023">>),
      missing_parameters |-> <<"department">>],
     [last_intent |-> "fee_payment",
      all_parameters |-> ("department" :> <<"law">> @@ "fee_amount" :> <<>>),
      missing_parameters |-> <<"fee_amount">>],
     [last_intent |-> "admission_inquiry",
      all_parameters |-> ("department" :> <<"law">> @@ "year" :> <<>>),
      missing_parameters |-> <<>>],
     [all_parameters |-> ("department" :> <<"law">>),
      missing_parameters |-> <<"year">>]}

\* the turns of one run of the /chat model
MaxTurns == 2

\* the calls of one run of the process_query model
MaxCalls == 1

\* the training sets a model can have been fitted on
Datasets == {"sample", "d1", "d2"}

\* how many classifier operations one run makes
MaxOps == 3

\* the texts given to the handlers, and what clean_text and _preprocess_text
\* make of them when applied again to their own results
RawTexts ==
    LET Normalized(texts) ==
            texts \cup {CleanText(m) : m \in texts} \cup {PreprocessText(m) : m \in texts}
    IN Normalized(Normalized(Normalized(Messages \cup QueryTexts)))

MemoTable ==
    [raw |-> [m \in RawTexts |-> RawFacts(m)],
     text |-> [t \in {PreprocessText(m) : m \in RawTexts} |-> TextFacts(t)]]

(***************************************************************************)
(* State                                                                   *)
(***************************************************************************)
VARIABLES
    hash_seed,             \* the order list(set(...)) gives in this process
    is_trained,            \* IntentClassifier.is_trained
    conversation_context,  \* main.conversation_context: session id -> entry
    steps,                 \* requests or calls made so far
    last,                  \* the last /chat request and what came of it
    pq,                    \* the last process_query call and what it returned
    caller_context,        \* the context a direct caller passes next
    classifier,            \* the data the model in memory and the one on disk were fitted on
    probe,                 \* the last direct call of a unit and what it returned
    in_flight              \* the /chat requests accepted and not yet handled

vars == <<memo, hash_seed, is_trained, conversation_context, steps, last, pq,
          caller_context, classifier, probe, in_flight>>

NoRequest == [path |-> "none"]

NoCall == [called |-> FALSE]

\* no model: IntentClassifier.model is None, ./trained_model does not exist
NoModel == "none"

\* AAUNLPEngine.train_intent_classifier when nothing raises: a model found in
\* ./trained_model is loaded and training_data is not looked at; otherwise a
\* model is fitted on training_data and saved (train, line 174)
TrainIntentClassifier(c, training_data) ==
    IF c.saved # NoModel
    THEN [c EXCEPT !.fitted_on = c.saved]
    ELSE [fitted_on |-> training_data, saved |-> training_data]

\* a predict that consults the model whether or not it was trained
PredictOutcomesFromModel == PredictLabels \X Confidences

\* intent_classifier.predict: the default while untrained (line 223), else
\* whatever the model answers
PredictOutcomes ==
    IF is_trained THEN PredictLabels \X Confidences
    ELSE {<<"general_info", untrained_confidence>>}

\* a process_query that merges the new parameters into the dict the context
\* holds instead of into a copy of it
ContextAfterMergingInPlace(context, parameters) ==
    IF ContextGiven(context) /\ Truthy(context, "all_parameters")
    THEN [context EXCEPT !.all_parameters = parameters]
    ELSE context

\* what the dict passed as context holds when process_query returns: both
\* branches merge into context['all_parameters'].copy() (lines 652-654 and
\* 666-671) and the other uses of context are reads (.get)
ContextAfterProcessQuery(context, parameters) == context

\* the record of one process_query call
CallRecord(text, context, predicted, ents) ==
    LET result == ProcessQuery(text, context, predicted, hash_seed, ents)
        follow == IsFollowUp(result.processed_text, context)
    IN [called |-> TRUE, text |-> text, context |-> context,
        predicted |-> predicted, predict_called |-> ~follow,
        branch |-> IF follow THEN "follow_up" ELSE "fresh",
        extracted |-> ExtractParameters(result.processed_text, result.intent, context,
                                        hash_seed, ents),
        result |-> result,
        context_after |-> ContextAfterProcessQuery(context, result.parameters)]

Init ==
    /\ memo = MemoTable
    /\ hash_seed \in HashSeeds
    /\ is_trained = FALSE
    /\ conversation_context = EmptyDict
    /\ steps = 0
    /\ last = NoRequest
    /\ pq = NoCall
    /\ caller_context = NoContext
    /\ classifier = [fitted_on |-> NoModel, saved |-> NoModel]
    /\ probe = NoCall
    /\ in_flight = <<>>

(***************************************************************************)
(* The /chat model                                                         *)
(***************************************************************************)
\* startup_event: train_intent_classifier loads or trains the model before
\* the first request is served
Startup ==
    /\ ~is_trained
    /\ is_trained' = TRUE
    /\ classifier' = TrainIntentClassifier(classifier, "sample")
    /\ UNCHANGED <<memo, hash_seed, conversation_context, steps, last, pq, caller_context,
                   probe, in_flight>>

Request(session_id, message, path, context, outcome) ==
    [path |-> path, session_id |-> session_id, message |-> message,
     context |-> context, outcome |-> outcome,
     had_entry |-> session_id \in DOMAIN conversation_context]

\* a handler that stores the turn before the computation that fails
FailedAfterWrite(session_id, message, path, context) ==
    /\ last' = Request(session_id, message, path, context, ErrorHandler)
    /\ pq' = NoCall
    /\ conversation_context' =
          IF session_id # NoSession
          THEN Put(conversation_context, session_id,
                   [last_intent |-> "general_info",
                    last_parameters |-> EmptyDict,
                    all_parameters |-> EmptyDict,
                    conversation_history |-> <<>>])
          ELSE conversation_context

\* a request that ends in the except clause (an exception raised anywhere
\* between lines 115 and 168, before the store is written): nothing was stored
Failed(session_id, message, path, context) ==
    /\ last' = Request(session_id, message, path, context, ErrorHandler)
    /\ pq' = NoCall
    /\ UNCHANGED conversation_context

\* lines 144-210 for one outcome of predict and extract_entities
Turn(session_id, message, predicted, ents) ==
    LET cleaned_message == Raw(message).clean
        context == ReadContext(conversation_context, session_id)
        call == CallRecord(cleaned_message, context, predicted, ents)
        result == call.result
        response_text ==
            GenerateResponse(result.intent, result.parameters, result.missing_parameters)
    IN /\ conversation_context' =
              IF session_id # NoSession
              THEN Put(conversation_context, session_id,
                       StoredContext(conversation_context, session_id, context,
                                     result, cleaned_message, response_text))
              ELSE conversation_context
       /\ pq' = call
       /\ last' = Request(session_id, message, "turn", context,
                          [kind |-> "response",
                           body |-> ChatResponse(response_text, result.intent,
                                                 result.confidence, result.parameters,
                                                 result.missing_parameters,
                                                 result.needs_clarification)])

\* POST /chat
Chat(session_id, message) ==
    /\ is_trained
    /\ steps < MaxTurns
    /\ steps' = steps + 1
    /\ UNCHANGED <<memo, hash_seed, is_trained, caller_context, classifier, probe>>
    /\ LET cleaned_message == Raw(message).clean
       IN IF Raw(message).blank
          THEN Failed(session_id, message, "invalid", NoContext)
          ELSE IF Raw(cleaned_message).greeting \/ Raw(cleaned_message).goodbye
          THEN /\ last' = Request(session_id, message,
                                  IF Raw(cleaned_message).greeting
                                  THEN "greeting" ELSE "goodbye",
                                  NoContext,
                                  CannedReply(IF Raw(cleaned_message).greeting
                                              THEN "greeting_response"
                                              ELSE "goodbye_response"))
               /\ pq' = NoCall
               /\ UNCHANGED conversation_context
          ELSE \/ Failed(session_id, message, "failed",
                         ReadContext(conversation_context, session_id))
               \/ \E predicted \in PredictOutcomes,
                     ents \in EntityChoices(Raw(cleaned_message).processed) :
                      Turn(session_id, message, predicted, ents)

Next == Startup \/ \E session_id \in SessionIds \cup {NoSession}, message \in Messages :
                       Chat(session_id, message) /\ UNCHANGED in_flight

Spec == Init /\ [][Next]_vars

(***************************************************************************)
(* The server model: /chat requests arrive while others wait.  chat is a   *)
(* coroutine (async def) with no await in its body, so the event loop runs *)
(* each accepted request from its first line to its return before it runs  *)
(* another one; the requests that have arrived wait in in_flight.          *)
(***************************************************************************)
\* a POST /chat request is accepted; arrived is the number of requests
\* handled so far
Receive(session_id, message) ==
    /\ is_trained
    /\ Len(in_flight) + steps < MaxTurns
    /\ in_flight' = Append(in_flight, [session_id |-> session_id, message |-> message,
                                       arrived |-> steps])
    /\ UNCHANGED <<memo, hash_seed, is_trained, conversation_context, steps, last, pq,
                   caller_context, classifier, probe>>

NextServer ==
    \/ Startup
    \/ \E session_id \in SessionIds \cup {NoSession}, message \in Messages :
          Receive(session_id, message)
    \/ \E i \in DOMAIN in_flight :
          /\ Chat(in_flight[i].session_id, in_flight[i].message)
          /\ in_flight' = SubSeq(in_flight, 1, i - 1) \o SubSeq(in_flight, i + 1, Len(in_flight))

\* the event loop runs every request it has accepted
SpecServer == Init /\ [][NextServer]_vars /\ WF_vars(NextServer)

(***************************************************************************)
(* The process_query model: a caller that owns the context and passes each *)
(* result back as the context of the next call                             *)
(***************************************************************************)
InitQuery ==
    /\ memo = MemoTable
    /\ hash_seed \in HashSeeds
    /\ is_trained \in BOOLEAN
    /\ conversation_context = EmptyDict
    /\ steps = 0
    /\ last = NoRequest
    /\ pq = NoCall
    /\ caller_context \in InitialContexts
    /\ classifier = IF is_trained THEN TrainIntentClassifier([saved |-> NoModel], "sample")
                    ELSE [fitted_on |-> NoModel, saved |-> NoModel]
    /\ probe = NoCall
    /\ in_flight = <<>>

Query(text) ==
    /\ steps < MaxCalls
    /\ steps' = steps + 1
    /\ \E predicted \in PredictOutcomes, ents \in EntityChoices(Raw(text).processed) :
          LET call == CallRecord(text, caller_context, predicted, ents)
          IN /\ pq' = call
             /\ caller_context' =
                    [last_intent |-> call.result.intent,
                     all_parameters |-> call.result.parameters,
                     missing_parameters |-> call.result.missing_parameters]
    /\ UNCHANGED <<memo, hash_seed, is_trained, conversation_context, last, classifier,
                   probe, in_flight>>

NextQuery == \E text \in QueryTexts : Query(text)

SpecQuery == InitQuery /\ [][NextQuery]_vars

(***************************************************************************)
(* The classifier model: one process that trains, loads and predicts.      *)
(* probe.requested remembers the training data of the last training call   *)
(* that returned normally (NoModel after load_model or a failed call).     *)
(***************************************************************************)
\* IntentClassifier.__init__ leaves is_trained False (line 131); ./trained_model
\* may be there from an earlier process
InitTrain ==
    /\ memo = MemoTable
    /\ hash_seed \in HashSeeds
    /\ is_trained = FALSE
    /\ conversation_context = EmptyDict
    /\ steps = 0
    /\ last = NoRequest
    /\ pq = NoCall
    /\ caller_context = NoContext
    /\ \E on_disk \in Datasets \cup {NoModel} :
          classifier = [fitted_on |-> NoModel, saved |-> on_disk]
    /\ probe = [called |-> FALSE, requested |-> NoModel]
    /\ in_flight = <<>>

\* IntentClassifier.train(texts, labels), lines 133-177.  It either completes
\* (the fitted model is saved, then is_trained is set) or raises: before the
\* new model object is made (line 142), while it is being fitted, or in
\* save_model; is_trained is not assigned on any of those paths.
Train(op, training_data) ==
    \/ /\ classifier' = [fitted_on |-> training_data, saved |-> training_data]
       /\ is_trained' = TRUE
       /\ probe' = [called |-> TRUE, op |-> op, arg |-> training_data, ok |-> TRUE,
                    requested |-> training_data]
    \/ /\ \E left \in {classifier.fitted_on, "unfitted", training_data} :
             classifier' = [classifier EXCEPT !.fitted_on = left]
       /\ is_trained' = is_trained
       /\ probe' = [called |-> TRUE, op |-> op, arg |-> training_data, ok |-> FALSE,
                    requested |-> NoModel]

\* AAUNLPEngine.train_intent_classifier(training_data), which POST /train and
\* startup_event call: load_model first; train only when it returned False
Retrain(training_data) ==
    /\ steps < MaxOps
    /\ steps' = steps + 1
    /\ IF classifier.saved # NoModel
       THEN /\ classifier' = TrainIntentClassifier(classifier, training_data)
            /\ is_trained' = TRUE
            /\ probe' = [called |-> TRUE, op |-> "train_intent_classifier",
                         arg |-> training_data, ok |-> TRUE, requested |-> training_data]
       ELSE Train("train_intent_classifier", training_data)
    /\ UNCHANGED <<memo, hash_seed, conversation_context, last, pq, caller_context,
                   in_flight>>

\* a direct IntentClassifier.train call, as the tests make
DirectTrain(training_data) ==
    /\ steps < MaxOps
    /\ steps' = steps + 1
    /\ Train("train", training_data)
    /\ UNCHANGED <<memo, hash_seed, conversation_context, last, pq, caller_context,
                   in_flight>>

\* IntentClassifier.load_model(), lines 196-219: False when ./trained_model
\* does not exist, else the saved model replaces the one in memory
LoadModel ==
    /\ steps < MaxOps
    /\ steps' = steps + 1
    /\ classifier' = IF classifier.saved = NoModel THEN classifier
                     ELSE [classifier EXCEPT !.fitted_on = classifier.saved]
    /\ is_trained' = (is_trained \/ classifier.saved # NoModel)
    /\ probe' = [called |-> TRUE, op |-> "load_model", arg |-> NoModel,
                 ok |-> classifier.saved # NoModel, requested |-> NoModel]
    /\ UNCHANGED <<memo, hash_seed, conversation_context, last, pq, caller_context,
                   in_flight>>

\* IntentClassifier.predict(text), lines 221-248
Predict(text) ==
    /\ steps < MaxOps
    /\ steps' = steps + 1
    /\ \E predicted \in PredictOutcomes :
          probe' = [called |-> TRUE, op |-> "predict", arg |-> text, ok |-> TRUE,
                    result |-> predicted, trained |-> is_trained,
                    model |-> classifier.fitted_on, requested |-> probe.requested]
    /\ UNCHANGED <<memo, hash_seed, is_trained, conversation_context, last, pq,
                   caller_context, classifier, in_flight>>

NextTrain ==
    \/ \E training_data \in Datasets : Retrain(training_data)
    \/ \E training_data \in Datasets : DirectTrain(training_data)
    \/ LoadModel
    \/ \E text \in Messages : Predict(text)

SpecTrain == InitTrain /\ [][NextTrain]_vars

(***************************************************************************)
(* The unit model: one direct call of generate_response or validate_year   *)
(* on arguments drawn at the start.  The calls read no state of the        *)
(* program; validate_year reads the clock.                                 *)
(***************************************************************************)
\* a validation with no upper limit
ValidateYearOpenEnded(year, now) ==
    /\ year # ""
    /\ \A i \in 1..Len(year) : Ch(year, i) \in DigitChars
    /\ StrToInt(year) >= 2000

\* ValidationUtils.validate_year(year) when datetime.now().year is now:
\* int(year) takes blanks around the numeral and a sign, and raises
\* ValueError for anything else
ValidateYear(year, now) ==
    LET s == Strip(year)
        digits == IF Ch(s, 1) \in {"+", "-"} THEN From(s, 2) ELSE s
        parses == digits # "" /\ \A i \in 1..Len(digits) : Ch(digits, i) \in DigitChars
        year_int == IF Ch(s, 1) = "-" THEN 0 - StrToInt(digits) ELSE StrToInt(digits)
    IN IF parses THEN 2000 <= year_int /\ year_int <= now + 2 ELSE FALSE

InitUnits ==
    /\ memo = MemoTable
    /\ hash_seed \in HashSeeds
    /\ is_trained = FALSE
    /\ conversation_context = EmptyDict
    /\ steps = 0
    /\ last = NoRequest
    /\ pq = NoCall
    /\ caller_context = NoContext
    /\ classifier = [fitted_on |-> NoModel, saved |-> NoModel]
    /\ \E args \in
          {[unit |-> "generate_response", intent |-> intent, parameters |-> parameters,
            missing_parameters |-> missing_parameters, confidence |-> confidence] :
              intent \in {"admission_inquiry", "registration_help", "general_info",
                          "out_of_domain", "student_portal_inquiry", "weather_forecast"},
              parameters \in {EmptyDict,
                              [department |-> <<"law">>],
                              [department |-> <<"law", "cs">>],
                              [semester |-> <<"second">>],
                              [semester |-> <<"second">>, year |-> <<"2024">>],
                              [semester |-> <<"first", "second">>, year |-> <<>>,
                               department |-> <<"cs">>]},
              missing_parameters \in {<<>>, <<"department">>, <<"semester", "year">>,
                                      <<"student_type", "year", "semester">>,
                                      <<"year", "semester", "department">>,
                                      <<"campus">>},
              confidence \in Confidences}
          \cup
          {[unit |-> "validate_year", year |-> year, now |-> now] :
              year \in {"2024", "2000", "1999", "invalid", "2026", "2027", "2028", "2029",
                        "", " 2024 ", "+2024", "-2024", "02024", "20 24", "2024.0",
                        "20245", "2050"},
              now \in {2024, 2025, 2026}} :
          probe = [called |-> FALSE, args |-> args]
    /\ in_flight = <<>>

\* response_templates.generate_response(intent, parameters, missing_parameters,
\* confidence), lines 1195-1204; confidence is not read
GenerateResponseCall ==
    /\ ~probe.called
    /\ probe.args.unit = "generate_response"
    /\ steps' = steps + 1
    /\ \E pick \in (0..4) \X (0..2) \X (0..2) :
          LET a == probe.args
          IN probe' = [called |-> TRUE, args |-> a, pick |-> pick,
                       response |->
                           IF GenerateResponse(a.intent, a.parameters,
                                               a.missing_parameters).kind = "follow_up"
                           THEN GenerateFollowUpResponse(a.intent, a.missing_parameters, pick)
                           ELSE GenerateCompleteResponse(a.intent, a.parameters, pick)]
    /\ UNCHANGED <<memo, hash_seed, is_trained, conversation_context, last, pq,
                   caller_context, classifier, in_flight>>

\* ValidationUtils.validate_year(year)
ValidateYearCall ==
    /\ ~probe.called
    /\ probe.args.unit = "validate_year"
    /\ steps' = steps + 1
    /\ probe' = [called |-> TRUE, args |-> probe.args,
                 result |-> ValidateYear(probe.args.year, probe.args.now)]
    /\ UNCHANGED <<memo, hash_seed, is_trained, conversation_context, last, pq,
                   caller_context, classifier, in_flight>>

NextUnits == GenerateResponseCall \/ ValidateYearCall

SpecUnits == InitUnits /\ [][NextUnits]_vars

(***************************************************************************)
(* Properties.  Those of the /chat endpoint are stated over Spec, those of *)
(* process_query over SpecQuery.                                           *)
(***************************************************************************)
\* C1: monotonic merge.  For every session, a slot stored with a non-empty
\* value is still stored after every later step, with the same value unless
\* that turn's extraction produced a non-empty value for the slot, in which
\* case the stored value is the extracted one; no step removes a slot or
\* replaces a non-empty value by an empty list.
C1_MonotonicMerge ==
    [][\A session_id \in DOMAIN conversation_context :
          /\ session_id \in DOMAIN conversation_context'
          /\ LET old == conversation_context[session_id].all_parameters
                 new == conversation_context'[session_id].all_parameters
                 wrote == /\ steps' # steps
                          /\ last'.path = "turn"
                          /\ last'.session_id = session_id
             IN \A slot \in DOMAIN old :
                   /\ slot \in DOMAIN new
                   /\ new[slot] = <<>> => old[slot] = <<>>
                   /\ old[slot] # <<>> =>
                         IF wrote /\ slot \in DOMAIN pq'.extracted
                                  /\ pq'.extracted[slot] # <<>>
                         THEN new[slot] = pq'.extracted[slot]
                         ELSE new[slot] = old[slot]]_vars

\* a later turn of a session extracted some slot but not a slot stored before,
\* and the stored slot kept its value
C1_Witness ==
    /\ last.path = "turn"
    /\ last.had_entry
    /\ DOMAIN pq.extracted # {}
    /\ \E slot \in DOMAIN last.context.all_parameters :
          /\ slot \notin DOMAIN pq.extracted
          /\ last.context.all_parameters[slot] # <<>>
          /\ conversation_context[last.session_id].all_parameters[slot]
                = last.context.all_parameters[slot]

\* C2: after a /chat turn that left a required slot missing, the next message
\* of the same session, when it is processed and has at most 5 words, is
\* handled as a follow-up: the context read carries the missing_parameters
\* list, the previous intent is reused, the confidence is 0.8 and predict is
\* not called.
C2_NextTurnIsFollowUp ==
    [][(/\ last.path = "turn"
        /\ last.session_id # NoSession
        /\ last.outcome.body.missing_parameters # <<>>
        /\ steps' # steps
        /\ last'.path = "turn"
        /\ last'.session_id = last.session_id
        /\ Facts(pq'.result.processed_text).words <= follow_up_max_words)
       => (/\ "missing_parameters" \in DOMAIN last'.context
           /\ pq'.branch = "follow_up"
           /\ pq'.result.intent = last.outcome.body.intent
           /\ pq'.result.confidence = follow_up_confidence
           /\ ~pq'.predict_called)]_vars

\* C3: process_query takes the follow-up branch iff a context is given, its
\* missing_parameters list is non-empty and the preprocessed text has at most
\* 5 words; then the intent is the context's last_intent, the confidence 0.8
\* and predict is not called; otherwise intent and confidence are what predict
\* returned.
C3_FollowUpRule ==
    pq.called =>
       LET context == pq.context
           given == context # NoContext /\ DOMAIN context # {}
           missing == /\ given
                      /\ "missing_parameters" \in DOMAIN context
                      /\ context.missing_parameters # <<>>
           short == Facts(pq.result.processed_text).words <= follow_up_max_words
           follow_up == given /\ missing /\ short
       IN /\ (pq.branch = "follow_up") <=> follow_up
          /\ follow_up =>
                /\ "last_intent" \in DOMAIN context =>
                      pq.result.intent = context.last_intent
                /\ pq.result.confidence = follow_up_confidence
                /\ ~pq.predict_called
          /\ ~follow_up =>
                /\ pq.predict_called
                /\ pq.result.intent = pq.predicted[1]
                /\ pq.result.confidence = pq.predicted[2]

\* a reply of exactly 5 words to a context with a missing slot was a follow-up
C3_Witness ==
    /\ pq.called
    /\ pq.branch = "follow_up"
    /\ Facts(pq.result.processed_text).words = follow_up_max_words
    /\ "last_intent" \in DOMAIN pq.context
    /\ pq.result.intent = pq.context.last_intent
    /\ pq.result.intent # pq.predicted[1]

\* C4: in a follow-up turn the merged parameters are the prior context's
\* accumulated parameters overwritten per slot by the extracted values; with
\* missing_parameters = ["year"] and the reply "2024" the result has
\* year = ["2024"], the prior intent and every slot accumulated before.
C4_FollowUpMerge ==
    (pq.called /\ pq.branch = "follow_up") =>
       LET prior == IF "all_parameters" \in DOMAIN pq.context
                    THEN pq.context.all_parameters ELSE EmptyDict
           new == pq.extracted
           merged == pq.result.parameters
       IN /\ DOMAIN merged = DOMAIN prior \cup DOMAIN new
          /\ \A slot \in DOMAIN new : merged[slot] = new[slot]
          /\ \A slot \in DOMAIN prior \ DOMAIN new : merged[slot] = prior[slot]
          /\ (pq.text = "2024" /\ pq.context.missing_parameters = <<"year">>) =>
                /\ "year" \in DOMAIN merged
                /\ merged["year"] = <<"2024">>
                /\ "last_intent" \in DOMAIN pq.context =>
                      pq.result.intent = pq.context.last_intent
                /\ DOMAIN prior \subseteq DOMAIN merged

\* the reply "2024" to a context that misses the year and holds other slots
C4_Witness ==
    /\ pq.called
    /\ pq.branch = "follow_up"
    /\ pq.text = "2024"
    /\ pq.context.missing_parameters = <<"year">>
    /\ pq.context.all_parameters # EmptyDict
    /\ pq.result.parameters["year"] = <<"2024">>
    /\ pq.result.intent = "registration_help"

\* C5 as stated: in a follow-up turn every slot that is not in the context's
\* missing list holds exactly the value the prior context held (or none),
\* whatever the reply contains and however many missing slots it filled.
C5_OnlyMissingSlotsFilled ==
    (pq.called /\ pq.branch = "follow_up") =>
       LET prior == IF "all_parameters" \in DOMAIN pq.context
                    THEN pq.context.all_parameters ELSE EmptyDict
           merged == pq.result.parameters
       IN \A slot \in DOMAIN merged \ Range(pq.context.missing_parameters) :
             slot \in DOMAIN prior /\ merged[slot] = prior[slot]

\* C5 amended: the same, for the follow-up turns whose reply resolved at least
\* as many of the missing slots as the missing list has entries (the case in
\* which extraction stops after the bare-answer recognizers).
C5_OnlyMissingSlotsFilledWhenAllAnswered ==
    (/\ pq.called
     /\ pq.branch = "follow_up"
     /\ LET answered == {slot \in Range(pq.context.missing_parameters)
                                  \cap Range(answer_slots) :
                            Facts(pq.result.processed_text)[slot] # None}
        IN Cardinality(answered) >= Len(pq.context.missing_parameters))
    => LET prior == IF "all_parameters" \in DOMAIN pq.context
                    THEN pq.context.all_parameters ELSE EmptyDict
           merged == pq.result.parameters
       IN \A slot \in DOMAIN merged \ Range(pq.context.missing_parameters) :
             slot \in DOMAIN prior /\ merged[slot] = prior[slot]

\* a reply that answered the whole missing list and in which a recognizer also
\* found a value for a slot that was not missing: that slot kept its prior value
C5_Witness ==
    /\ pq.called
    /\ pq.branch = "follow_up"
    /\ DOMAIN pq.extracted = Range(pq.context.missing_parameters)
    /\ \E slot \in Range(answer_slots) \ Range(pq.context.missing_parameters) :
          /\ Facts(pq.result.processed_text)[slot] # None
          /\ slot \in DOMAIN pq.context.all_parameters
          /\ pq.context.all_parameters[slot] # <<Facts(pq.result.processed_text)[slot]>>
          /\ pq.result.parameters[slot] = pq.context.all_parameters[slot]

\* C6: in both branches missing_parameters is the list of the required slots
\* of the turn's intent, in table order, that are absent from the merged
\* parameters or mapped to an empty value; an intent outside the table has no
\* required slots; fee_payment without fee_amount gives ["fee_amount"].
C6_MissingRecomputed ==
    pq.called =>
       LET intent == pq.result.intent
           merged == pq.result.parameters
           required == IF intent \in DOMAIN required_params
                       THEN required_params[intent] ELSE <<>>
           unresolved(slot) == slot \notin DOMAIN merged \/ merged[slot] = <<>>
       IN /\ pq.result.missing_parameters = SelectSeq(required, unresolved)
          /\ intent \notin DOMAIN required_params => pq.result.missing_parameters = <<>>
          /\ (intent = "fee_payment" /\ "fee_amount" \notin DOMAIN merged) =>
                pq.result.missing_parameters = <<"fee_amount">>

\* a follow-up turn whose merged parameters map a required slot to an empty
\* list: the slot is reported missing
C6_Witness ==
    /\ pq.called
    /\ pq.branch = "follow_up"
    /\ pq.result.intent = "fee_payment"
    /\ "fee_amount" \in DOMAIN pq.result.parameters
    /\ pq.result.parameters["fee_amount"] = <<>>
    /\ pq.result.missing_parameters = <<"fee_amount">>

\* C7: needs_clarification is true iff missing_parameters is non-empty,
\* whatever the confidence.
C7_ClarificationIffMissing ==
    pq.called => (pq.result.needs_clarification <=> pq.result.missing_parameters # <<>>)

\* a result of low confidence with nothing missing asks for no clarification
C7_Witness ==
    /\ pq.called
    /\ pq.result.confidence < 60
    /\ pq.result.missing_parameters = <<>>
    /\ ~pq.result.needs_clarification

\* C8 as stated: the keys of a session's stored parameters are within the
\* union of the required slots of the intents its turns resolved to (the
\* intents are read from the replies kept in the session's history).
C8_KeysWithinRequiredSlots ==
    \A session_id \in DOMAIN conversation_context :
       LET entry == conversation_context[session_id]
           history == entry.conversation_history
           seen == {history[i].bot.intent : i \in DOMAIN history}
           required == UNION {Range(GetRequiredParameters(intent)) : intent \in seen}
       IN DOMAIN entry.all_parameters \subseteq required

\* C8 amended: the keys of a session's stored parameters are within the slot
\* names the extractor writes, whether or not an intent seen requires them.
C8_KeysWithinExtractorSlots ==
    \A session_id \in DOMAIN conversation_context :
       DOMAIN conversation_context[session_id].all_parameters \subseteq
          {"department", "document_type", "semester", "year", "fee_amount", "campus",
           "student_type", "person", "date", "amount", "student_id"}

\* a session stores a slot that no intent of its turns requires
C8_Witness ==
    \E session_id \in DOMAIN conversation_context :
       LET entry == conversation_context[session_id]
           history == entry.conversation_history
           seen == {history[i].bot.intent : i \in DOMAIN history}
           required == UNION {Range(GetRequiredParameters(intent)) : intent \in seen}
       IN \E slot \in DOMAIN entry.all_parameters :
             slot \notin required /\ entry.all_parameters[slot] # <<>>

\* C9 as stated: after every /chat request that carries a session id the
\* session has an entry, rewritten by that request: last_intent and parameters
\* are those of the reply, and the history ends with the request's message.
C9_EveryRequestWritesEntry ==
    (last.path # "none" /\ last.session_id # NoSession) =>
       /\ last.session_id \in DOMAIN conversation_context
       /\ last.outcome.kind = "response"
       /\ LET entry == conversation_context[last.session_id]
              history == entry.conversation_history
          IN /\ entry.last_intent = last.outcome.body.intent
             /\ entry.all_parameters = last.outcome.body.parameters
             /\ history # <<>>
             /\ history[Len(history)] = [user |-> Raw(last.message).clean,
                                         bot |-> last.outcome.body.response]

\* C9 amended: a /chat request with a session id that is not blank, not a
\* greeting or goodbye and raises no exception creates or rewrites the entry
\* (last_intent, parameters, history extended by the turn); every other
\* request leaves the store as it is; no step deletes an entry.
C9_ProcessedTurnsWriteEntry ==
    [][/\ DOMAIN conversation_context \subseteq DOMAIN conversation_context'
       /\ steps' # steps =>
             IF last'.path = "turn" /\ last'.session_id # NoSession
             THEN LET session_id == last'.session_id
                      before == IF session_id \in DOMAIN conversation_context
                                THEN conversation_context[session_id].conversation_history
                                ELSE <<>>
                  IN /\ session_id \in DOMAIN conversation_context'
                     /\ conversation_context'[session_id].last_intent = pq'.result.intent
                     /\ conversation_context'[session_id].all_parameters
                           = pq'.result.parameters
                     /\ conversation_context'[session_id].last_parameters
                           = pq'.result.parameters
                     /\ conversation_context'[session_id].conversation_history
                           = Append(before, [user |-> Raw(last'.message).clean,
                                             bot |-> last'.outcome.body.response])
                     /\ \A other \in DOMAIN conversation_context \ {session_id} :
                           conversation_context'[other] = conversation_context[other]
             ELSE conversation_context' = conversation_context]_vars

\* the second processed turn of a session rewrote the entry the first created
C9_Witness ==
    /\ last.path = "turn"
    /\ last.had_entry
    /\ last.session_id \in DOMAIN conversation_context
    /\ Len(conversation_context[last.session_id].conversation_history) = 2
    /\ conversation_context[last.session_id].last_intent = pq.result.intent
    /\ conversation_context[last.session_id].last_intent # last.context.last_intent

\* C10: a request during which an exception was raised ends with a normal
\* response: an apology text, intent "error", confidence 0.0, empty
\* parameters and needs_clarification true; no exception leaves the handler.
C10_ExceptionsAnswered ==
    last.path \in {"invalid", "failed"} =>
       /\ last.outcome.kind = "response"
       /\ last.outcome.body.response = "error_response"
       /\ last.outcome.body.intent = "error"
       /\ last.outcome.body.confidence = 0
       /\ last.outcome.body.parameters = EmptyDict
       /\ last.outcome.body.needs_clarification

\* C11: after a train_intent_classifier call (the body of POST /train) with
\* training data D returned normally, every later prediction is made by a
\* model fitted on D, whatever was trained, saved or loaded before
C11_RetrainingReplacesModel ==
    (probe.called /\ probe.op = "predict" /\ probe.requested # NoModel)
        => probe.model = probe.requested

\* C12: an untrained classifier answers ("general_info", 0.5) to every text,
\* the empty one included; is_trained turns true only in a training call that
\* completed or a load_model call that returned True, and never turns false
C12_UntrainedDefaultAndMonotone ==
    [][/\ (probe'.called /\ probe'.op = "predict" /\ ~probe'.trained)
              => probe'.result = <<"general_info", 50>>
       /\ is_trained => is_trained'
       /\ (~is_trained /\ is_trained')
              => probe'.op \in {"train", "train_intent_classifier", "load_model"}
                 /\ probe'.ok]_vars

C12_Witness ==
    /\ probe.called /\ probe.op = "predict" /\ probe.arg = "" /\ ~probe.trained
    /\ classifier.fitted_on = "unfitted"

\* C13: with a non-empty missing list generate_response renders no 'complete'
\* template: the response is one of the intent's 'partial' texts (the generic
\* "I need a bit more information" text when the intent has none) followed by
\* at most two questions, one for each of the first two missing slots that has
\* registered questions, in order; later slots are never asked about
C13_FollowUpNeverComplete ==
    (/\ probe.called
     /\ probe.args.unit = "generate_response"
     /\ probe.args.missing_parameters # <<>>) =>
        LET a == probe.args
            r == probe.response
            first_two == SubSeq(a.missing_parameters, 1,
                                IF Len(a.missing_parameters) < 2
                                THEN Len(a.missing_parameters) ELSE 2)
            asked == SelectSeq(first_two, LAMBDA slot : slot \in DOMAIN follow_up_questions)
        IN /\ IF a.intent \in DOMAIN templates
              THEN /\ r[1] \in Range(templates[a.intent].partial)
                   /\ \A k \in DOMAIN templates[a.intent].complete :
                         r[1] # templates[a.intent].complete[k][1]
              ELSE r[1] = "I need a bit more information to help you better."
           /\ Len(r) = 1 + Len(asked)
           /\ Len(r) <= 3
           /\ \A j \in 1..Len(asked) : r[j + 1] \in Range(follow_up_questions[asked[j]])

C13_Witness ==
    /\ probe.called
    /\ probe.args.unit = "generate_response"
    /\ probe.args.missing_parameters = <<"student_type", "year", "semester">>
    /\ probe.args.intent = "registration_help"
    /\ Len(probe.response) = 2
    /\ probe.response[2] = "What year is this for?"

\* C14: with an empty missing list and parameters that cover every field of
\* the chosen template, each field is replaced by its value, the members of a
\* list value joined by ", ", and no "{slot}" text remains
C14_CompleteFillsEveryPlaceholder ==
    (/\ probe.called
     /\ probe.args.unit = "generate_response"
     /\ probe.args.missing_parameters = <<>>
     /\ probe.args.intent \in DOMAIN templates) =>
        LET a == probe.args
            r == probe.response
            complete == templates[a.intent].complete
            template == complete[(probe.pick[1] % Len(complete)) + 1]
            Name(i) == SubSeq(template[i], 2, Len(template[i]) - 1)
            fields == {i \in DOMAIN template : Ch(template[i], 1) = "{"}
        IN (\A i \in fields : Name(i) \in DOMAIN a.parameters) =>
              /\ Len(r) = Len(template)
              /\ \A i \in DOMAIN template :
                    IF i \in fields
                    THEN LET value == a.parameters[Name(i)]
                         IN r[i] = CASE Len(value) = 0 -> ""
                                     [] Len(value) = 1 -> value[1]
                                     [] Len(value) = 2 -> value[1] \o ", " \o value[2]
                    ELSE r[i] = template[i]
              /\ \A i \in DOMAIN r : Ch(r[i], 1) # "{"

C14_Witness ==
    /\ probe.called
    /\ probe.args.unit = "generate_response"
    /\ probe.args.missing_parameters = <<>>
    /\ probe.args.intent = "admission_inquiry"
    /\ probe.args.parameters = [department |-> <<"law", "cs">>]
    /\ probe.pick[1] = 1
    /\ probe.response[2] = "law, cs"

C16_UnknownIntentFallback ==
    /\ "student_portal_inquiry" \notin DOMAIN templates
    /\ (/\ probe.called
        /\ probe.args.unit = "generate_response"
        /\ probe.args.missing_parameters = <<>>
        /\ probe.args.intent \notin DOMAIN templates) =>
           probe.response = <<"I understand your request, but I don't have specific information available right now. Please contact the relevant AAU office for assistance.">>

C16_Witness ==
    /\ probe.called
    /\ probe.args.unit = "generate_response"
    /\ probe.args.missing_parameters = <<>>
    /\ probe.args.intent = "student_portal_inquiry"
    /\ probe.args.parameters = [department |-> <<"law">>]

\* C17: the random choices do not change which fields appear: whatever a
\* second run on the same intent, parameters and missing list draws, its
\* response mentions the same parameter values and asks about the same slots
C17_ChoiceIndependentFields ==
    (probe.called /\ probe.args.unit = "generate_response") =>
        LET a == probe.args
            Mentioned(r) == {slot \in DOMAIN a.parameters :
                                \E i \in DOMAIN r : r[i] = Join(a.parameters[slot])}
            Asked(r) == {slot \in DOMAIN follow_up_questions :
                            \E i \in DOMAIN r : r[i] \in Range(follow_up_questions[slot])}
        IN \A other \in (0..4) \X (0..2) \X (0..2) :
              LET second == IF a.missing_parameters # <<>>
                            THEN GenerateFollowUpResponse(a.intent, a.missing_parameters,
                                                          other)
                            ELSE GenerateCompleteResponse(a.intent, a.parameters, other)
              IN /\ Mentioned(second) = Mentioned(probe.response)
                 /\ Asked(second) = Asked(probe.response)

C17_Witness ==
    /\ probe.called
    /\ probe.args.unit = "generate_response"
    /\ probe.args.intent = "admission_inquiry"
    /\ probe.args.missing_parameters = <<>>
    /\ probe.args.parameters = [department |-> <<"law">>]
    /\ probe.pick[1] = 1
    /\ "law" \in Range(probe.response)
    /\ probe.response # GenerateCompleteResponse("admission_inquiry",
                                                 [department |-> <<"law">>], <<0, 0, 0>>)

\* C18: with an empty missing list and a low confidence (0.3) the response is
\* a clarification message and not the text of the complete path
C18_LowConfidenceClarifies ==
    (/\ probe.called
     /\ probe.args.unit = "generate_response"
     /\ probe.args.missing_parameters = <<>>
     /\ probe.args.confidence = 30) =>
        probe.response # GenerateCompleteResponse(probe.args.intent, probe.args.parameters,
                                                  probe.pick)

\* C19: the year slot never holds a four-digit number outside
\* [2000, current year + 2]: a reply or message such as "1999" or "2050" leaves
\* year unfilled, in the context-aware extraction and in the regular sweep
C19_YearWithinRange ==
    (pq.called /\ "year" \in DOMAIN pq.extracted) =>
        \A j \in DOMAIN pq.extracted.year :
            LET year == pq.extracted.year[j]
            IN (Len(year) = 4 /\ \A i \in 1..4 : Ch(year, i) \in DigitChars) =>
                  (2000 <= StrToInt(year) /\ StrToInt(year) <= current_year + 2)

\* C20: validate_year(y) is true exactly when y is the text of an integer in
\* 2000 .. current year + 2 (blanks around it, a plus sign and leading zeros
\* allowed, as int() reads them) and false otherwise
C20_ValidateYearRange ==
    (probe.called /\ probe.args.unit = "validate_year") =>
        (probe.result <=>
            \E n \in 2000..(probe.args.now + 2) :
               probe.args.year \in {before \o sign \o IntToStr(n) \o after :
                                       before \in {"", " "}, sign \in {"", "+", "0"},
                                       after \in {"", " "}})

C20_Witness ==
    /\ probe.called
    /\ probe.args.unit = "validate_year"
    /\ probe.args.year = "2028"
    /\ probe.args.now = 2026
    /\ probe.result

\* C21 (as stated): _preprocess_text and TextProcessor.clean_text are both
\* idempotent on every text
C21_BothIdempotent ==
    pq.called =>
        /\ Raw(Raw(pq.text).processed).processed = Raw(pq.text).processed
        /\ Raw(Raw(pq.text).clean).clean = Raw(pq.text).clean

\* C21 (amended): _preprocess_text is idempotent, on a text as given and on
\* what clean_text makes of it, and so is clean_text followed by
\* _preprocess_text; clean_text alone is not
C21_PreprocessIdempotent ==
    pq.called =>
        LET Normalize(text) == Raw(Raw(text).clean).processed
        IN /\ \A text \in {pq.text, Raw(pq.text).clean} :
                 Raw(Raw(text).processed).processed = Raw(text).processed
           /\ pq.result.processed_text = Raw(pq.text).processed
           /\ Normalize(Normalize(pq.text)) = Normalize(pq.text)

C21_Witness ==
    /\ pq.called
    /\ pq.text = "fees @ aau"
    /\ pq.result.processed_text = "fees @ addis ababa university"
    /\ Raw(pq.text).clean = "fees  aau"
    /\ Raw(Raw(pq.text).clean).processed = "fees addis ababa university"

\* C22: in a fresh-query turn the extraction is the full sweep: every slot
\* whose pattern matches the text is in the turn's extraction, whether or not
\* a context is given and whatever its missing_parameters list holds
C22_FreshQueryFullSweep ==
    (pq.called /\ pq.branch = "fresh") =>
        \A slot \in DOMAIN Facts(pq.result.processed_text).sweep[hash_seed] :
            slot \in DOMAIN pq.extracted

C24_HistoryAppendOnly ==
    [][/\ \A session_id \in DOMAIN conversation_context :
            /\ session_id \in DOMAIN conversation_context'
            /\ LET before == conversation_context[session_id].conversation_history
                   after == conversation_context'[session_id].conversation_history
               IN IF steps' = steps + 1 /\ last'.path = "turn"
                     /\ last'.session_id = session_id
                  THEN after = before \o <<[user |-> Raw(last'.message).clean,
                                            bot |-> last'.outcome.body.response]>>
                  ELSE after = before
       /\ \A session_id \in DOMAIN conversation_context' \ DOMAIN conversation_context :
            /\ last'.path = "turn" /\ last'.session_id = session_id
            /\ conversation_context'[session_id].conversation_history =
                  <<[user |-> Raw(last'.message).clean,
                     bot |-> last'.outcome.body.response]>>
       /\ (steps' = steps + 1 /\ last'.path = "turn" /\ ContextGiven(last'.context)) =>
            LET without_history ==
                    [key \in DOMAIN last'.context \ {"conversation_history"} |->
                        last'.context[key]]
            IN /\ \E ents \in EntityChoices(pq'.result.processed_text) :
                     pq'.result = ProcessQuery(pq'.text, without_history, pq'.predicted,
                                               hash_seed, ents)
               /\ last'.outcome.body.response =
                     GenerateResponse(pq'.result.intent, pq'.result.parameters,
                                      pq'.result.missing_parameters)]_vars

C24_Witness ==
    /\ "s1" \in DOMAIN conversation_context
    /\ Len(conversation_context["s1"].conversation_history) = 2
    /\ conversation_context["s1"].conversation_history[1].user = "I want to apply for admission"
    /\ conversation_context["s1"].conversation_history[2].user = "law"
    /\ last.had_entry

C26_InvalidMessageAnswered400 ==
    last.path = "invalid" =>
        /\ last.outcome.kind = "http_error"
        /\ last.outcome.status = 400

\* C27: in context-aware extraction a missing slot is filled only by a
\* reply of that slot's own type.  With semester and year both missing, a
\* reply that is just a four-digit year fills year only, and semester is
\* still in missing_parameters after the turn
C27_YearReplyFillsYearOnly ==
    (/\ pq.called
     /\ pq.text = "2024"
     /\ ContextGiven(pq.context)
     /\ Get(pq.context, "missing_parameters", <<>>) = <<"semester", "year">>) =>
        /\ "year" \in DOMAIN pq.extracted
        /\ "semester" \notin DOMAIN pq.extracted
        /\ "semester" \in Range(pq.result.missing_parameters)

\* C28: a /chat message recognized as a greeting or a goodbye is answered
\* with intent general_info, confidence 1.0, empty parameters, empty missing
\* list and needs_clarification false; the handler reads no context, calls
\* process_query not at all and leaves the session store exactly as it was,
\* also when the session has an open clarifying question
C28_GreetingLeavesStore ==
    [][(steps' = steps + 1 /\ last'.path \in {"greeting", "goodbye"}) =>
          /\ last'.outcome.kind = "response"
          /\ last'.outcome.body.intent = "general_info"
          /\ last'.outcome.body.confidence = 100
          /\ last'.outcome.body.parameters = EmptyDict
          /\ last'.outcome.body.missing_parameters = <<>>
          /\ last'.outcome.body.needs_clarification = FALSE
          /\ last'.context = NoContext
          /\ ~pq'.called
          /\ conversation_context' = conversation_context]_vars

C28_Witness ==
    /\ last.path = "goodbye"
    /\ last.message = "thanks"
    /\ last.session_id = "s1"
    /\ last.had_entry
    /\ conversation_context["s1"].last_intent = "admission_inquiry"
    /\ conversation_context["s1"].all_parameters = EmptyDict
    /\ Len(conversation_context["s1"].conversation_history) = 1

\* C29: when handling a /chat request fails with an exception raised in
\* classification, extraction, rendering or news retrieval, the session
\* store is left unchanged: every session's entry after the failed request
\* equals its entry before it, and no entry is added
C29_FailedRequestLeavesStore ==
    [][(steps' = steps + 1 /\ last'.path = "failed") =>
          /\ DOMAIN conversation_context' = DOMAIN conversation_context
          /\ \A session_id \in DOMAIN conversation_context :
                conversation_context'[session_id] = conversation_context[session_id]
          /\ last'.had_entry = (last'.session_id \in DOMAIN conversation_context')]_vars

C29_Witness ==
    /\ last.path = "failed"
    /\ last.session_id = "s1"
    /\ last.message = "law"
    /\ last.had_entry
    /\ last.context # NoContext
    /\ last.context = conversation_context["s1"]
    /\ Len(conversation_context["s1"].conversation_history) = 1

====
